---- MODULE Spec2Model ----
(***************************************************************************)
(* A model of geoguessr_source_extractor: the token relations the          *)
(* recognizers read, the recognizers of interesting_things.py, the         *)
(* escape-aware JSON decoder, and the per-run aggregation of extractor.py. *)
(*                                                                         *)
(* Text is a sequence of one-character strings; a token's text is the text *)
(* the lexer took from the source (a string literal's text includes its    *)
(* quotes).  Tokens live in an arena: index 1 is the lexer's START token,  *)
(* the stream tokens follow, the last one is EOF; 0 stands for None.       *)
(***************************************************************************)
EXTENDS Integers, Sequences, FiniteSets, TLC

VARIABLES
    js,              \* the lexemes of the file being scanned (the source text)
    tokens,          \* the arena of linked tokens of the file being scanned
    pos,             \* arena index of the token the scan loop is at (a download loop:
                     \* the number of tasks awaited)
    things,          \* the accumulators of _find_interesting_things_in_js
    raised,          \* the exception that left the scan, or "none"
    signal,          \* the condition caught and logged by the last iteration
    pc,              \* where the program is
    source_text,     \* the literal text given to _unescape_and_parse_json
    unescaped,       \* that text after the hex/unicode escape replacement
    handed,          \* that text after the backslash collapse, as given to from_json
    decoded,         \* what from_json made of it
    source_files,    \* the files given to find_interesting_things_in_all_files (a
                     \* download loop: the URLs to download)
    futures,         \* the files whose future has not been awaited yet (a download
                     \* loop: the state of the task of each URL)
    results,         \* the InterestingThingsInAllFiles being filled (a download loop:
                     \* the tasks that are done, in the order as_completed yields them)
    locals,          \* the local variables of the call in progress
    returned,        \* what the call returned
    written          \* the files written by the run

vars ==
    <<js, tokens, pos, things, raised, signal, pc, source_text, unescaped, handed, decoded,
      source_files, futures, results, locals, returned, written>>

None == 0

----------------------------------------------------------------------------
(* Text helpers: Python's str operations on sequences of characters.       *)

Quote == "\""
Apos == "'"
Backslash == "\\"

\* s[a..b] as Python's s[a-1:b]
Slice(s, a, b) == IF a > b THEN <<>> ELSE SubSeq(s, a, b)

\* str.startswith(p)
StartsWith(s, p) == Len(s) >= Len(p) /\ SubSeq(s, 1, Len(p)) = p

\* str.startswith((p1, p2, ...))
StartsWithAny(s, ps) == \E p \in ps : StartsWith(s, p)

\* str.removeprefix(p)
RemovePrefix(s, p) == IF StartsWith(s, p) THEN Slice(s, Len(p) + 1, Len(s)) ELSE s

RECURSIVE LStrip(_, _)
LStrip(s, cs) ==
    IF s # <<>> /\ Head(s) \in cs THEN LStrip(Tail(s), cs) ELSE s

RECURSIVE RStrip(_, _)
RStrip(s, cs) ==
    IF s # <<>> /\ s[Len(s)] \in cs THEN RStrip(Slice(s, 1, Len(s) - 1), cs) ELSE s

\* str.strip(chars): every leading and every trailing character of the set goes
Strip(s, cs) == RStrip(LStrip(s, cs), cs)

\* text.strip('"\'')
StripQuotes(s) == Strip(s, {Quote, Apos})

RECURSIVE Concat(_)
Concat(ss) == IF ss = <<>> THEN <<>> ELSE Head(ss) \o Concat(Tail(ss))

----------------------------------------------------------------------------
(* Tokens.  tokenize_js hands the text to jsbeautifier's Tokenizer and     *)
(* returns its token stream; the lexemes (type and text of each token) are *)
(* the input here, the links are computed as Tokenizer.tokenize does.      *)

Lexeme(type, text) ==
    [type |-> type, text |-> text, newlines |-> 0, whitespace_before |-> <<>>]

StartLexeme == Lexeme("TK_START", <<>>)
EofLexeme == Lexeme("TK_EOF", <<>>)

\* Tokenizer._is_opening
IsOpening(lx) == lx.type \in {"TK_START_BLOCK", "TK_START_EXPR"}

\* Tokenizer._is_closing: the closer must pair with the innermost open token
IsClosing(lx, open) ==
    /\ lx.type \in {"TK_END_BLOCK", "TK_END_EXPR"}
    /\ \/ lx.text = <<"]">> /\ open.text = <<"[">>
       \/ lx.text = <<")">> /\ open.text = <<"(">>
       \/ lx.text = <<"}">> /\ open.text = <<"{">>

\* The step of the pass that gives a closer the token it closes as parent
LinkStep_parent_closed(lex, k, st) ==
    IF IsOpening(lex[k])
    THEN [open |-> k + 1, stack |-> <<st.open>> \o st.stack,
          acc |-> Append(st.acc, [parent |-> st.open, opened |-> None])]
    ELSE IF st.open # None /\ IsClosing(lex[k], lex[st.open - 1])
    THEN [open |-> Head(st.stack), stack |-> Tail(st.stack),
          acc |-> Append(st.acc, [parent |-> st.open, opened |-> st.open])]
    ELSE [st EXCEPT !.acc = Append(@, [parent |-> st.open, opened |-> None])]

\* One pass with a stack of open tokens: for the k-th lexeme of the stream
\* (arena index k + 1) its parent and, for a closer, the token it closes.
\* An opener's parent is the token open before it; a closer's parent is the
\* token open after the pop; a closer that pairs with nothing closes nothing.
\* st is [open, stack, acc]: the open token, those open around it, the links
\* so far.
LinkStep(lex, k, st) ==
    IF IsOpening(lex[k])
    THEN [open |-> k + 1, stack |-> <<st.open>> \o st.stack,
          acc |-> Append(st.acc, [parent |-> st.open, opened |-> None])]
    ELSE IF st.open # None /\ IsClosing(lex[k], lex[st.open - 1])
    THEN [open |-> Head(st.stack), stack |-> Tail(st.stack),
          acc |-> Append(st.acc, [parent |-> Head(st.stack), opened |-> st.open])]
    ELSE [st EXCEPT !.acc = Append(@, [parent |-> st.open, opened |-> None])]

\* The pass over lexemes lo..hi from state st, the first half then the second
\* (the state the first half ends in is known before the second begins)
RECURSIVE LinkPass(_, _, _, _)
LinkPass(lex, lo, hi, st) ==
    IF lo > hi \/ Len(st.acc) # lo - 1 THEN st
    ELSE IF lo = hi THEN LinkStep(lex, lo, st)
    ELSE LinkPass(lex, (lo + hi) \div 2 + 1, hi, LinkPass(lex, lo, (lo + hi) \div 2, st))

\* The token that closed arena token i, if any
ClosedBy(links, i) ==
    LET cs == {k \in 1..Len(links) : links[k].opened = i}
    IN IF cs = {} THEN None ELSE (CHOOSE k \in cs : TRUE) + 1

\* The arena of linked tokens for a stream of lexemes that ends with EOF and
\* the links of the pass over it (START is the `previous` of the first token)
Arena(lex, links) ==
    [i \in 1..(Len(lex) + 1) |->
        IF i = 1
        THEN [type |-> StartLexeme.type, text |-> StartLexeme.text,
              newlines |-> StartLexeme.newlines,
              whitespace_before |-> StartLexeme.whitespace_before,
              next |-> 2, previous |-> None, parent |-> None, opened |-> None,
              closed |-> None]
        ELSE [type |-> lex[i - 1].type, text |-> lex[i - 1].text,
              newlines |-> lex[i - 1].newlines,
              whitespace_before |-> lex[i - 1].whitespace_before,
              next |-> IF i <= Len(lex) THEN i + 1 ELSE None,
              previous |-> i - 1,
              parent |-> links[i - 1].parent, opened |-> links[i - 1].opened,
              closed |-> ClosedBy(links, i)]]

\* tokenize_js: the arena of linked tokens for a stream of lexemes (EOF is
\* appended by the lexer)
Tokenize(lexemes) ==
    Arena(Append(lexemes, EofLexeme),
          LinkPass(Append(lexemes, EofLexeme), 1, Len(lexemes) + 1,
                   [open |-> None, stack |-> <<>>, acc |-> <<>>]).acc)

\* The indices the scan loop visits: `for token in tokens`
FirstToken == 2


----------------------------------------------------------------------------
(* Numbers and characters: int(), float(), chr() on texts.                 *)

Digits == <<"0", "1", "2", "3", "4", "5", "6", "7", "8", "9">>
HexLower == Digits \o <<"a", "b", "c", "d", "e", "f">>
HexUpper == Digits \o <<"A", "B", "C", "D", "E", "F">>

IsDigit(c) == \E d \in 1..10 : Digits[d] = c
IsHexDigit(c) == \E d \in 1..16 : HexLower[d] = c \/ HexUpper[d] = c
HexVal(c) == (CHOOSE d \in 1..16 : HexLower[d] = c \/ HexUpper[d] = c) - 1

AllDigits(s) == \A i \in 1..Len(s) : IsDigit(s[i])
AllHex(s) == \A i \in 1..Len(s) : IsHexDigit(s[i])

RECURSIVE NumVal(_, _)
NumVal(s, base) ==
    IF s = <<>> THEN 0
    ELSE NumVal(Slice(s, 1, Len(s) - 1), base) * base + HexVal(s[Len(s)])

RECURSIVE Pow10(_)
Pow10(k) == IF k = 0 THEN 1 ELSE 10 * Pow10(k - 1)

\* The printable ASCII characters, code 32 first (the grave accent, which a
\* TLA+ string cannot hold, is named by its number)
Ascii ==
    <<
      " ", "!", "\"", "#", "$", "%", "&", "'", "(", ")", "*", "+",
      ",", "-", ".", "/", "0", "1", "2", "3", "4", "5", "6", "7",
      "8", "9", ":", ";", "<", "=", ">", "?", "@", "A", "B", "C",
      "D", "E", "F", "G", "H", "I", "J", "K", "L", "M", "N", "O",
      "P", "Q", "R", "S", "T", "U", "V", "W", "X", "Y", "Z", "[",
      "\\", "]", "^", "_", "U+96", "a", "b", "c", "d", "e", "f", "g",
      "h", "i", "j", "k", "l", "m", "n", "o", "p", "q", "r", "s",
      "t", "u", "v", "w", "x", "y", "z", "{", "|", "}", "~" >>

\* chr(code); a code outside printable ASCII is named by its number
Chr(code) ==
    IF code \in 32..126 THEN Ascii[code - 31] ELSE "U+" \o ToString(code)

\* int(text): decimal digits only, anything else is a ValueError
PyInt(s) ==
    IF s # <<>> /\ AllDigits(s) THEN [exc |-> "none", v |-> NumVal(s, 10)]
    ELSE [exc |-> "ValueError", v |-> 0]

\* First index of s holding a character of cs, or 0
IndexOfAny(s, cs) ==
    LET hits == {i \in 1..Len(s) : s[i] \in cs}
    IN IF hits = {} THEN 0 ELSE CHOOSE i \in hits : \A j \in hits : i <= j

\* int(float(text)): digits, an optional fraction, an optional exponent; the
\* float is truncated.  "Infinity" is a float that int() cannot convert.
PyIntOfFloat(s) ==
    LET e == IndexOfAny(s, {"e", "E"})
        mant == IF e = 0 THEN s ELSE Slice(s, 1, e - 1)
        expo == IF e = 0 THEN <<>> ELSE Slice(s, e + 1, Len(s))
        sign == IF expo # <<>> /\ Head(expo) \in {"+", "-"} THEN Head(expo) ELSE "+"
        edig == IF expo # <<>> /\ Head(expo) \in {"+", "-"} THEN Tail(expo) ELSE expo
        dot == IndexOfAny(mant, {"."})
        ip == IF dot = 0 THEN mant ELSE Slice(mant, 1, dot - 1)
        fp == IF dot = 0 THEN <<>> ELSE Slice(mant, dot + 1, Len(mant))
        ok == /\ AllDigits(ip) /\ AllDigits(fp) /\ Len(ip) + Len(fp) >= 1
              /\ e # 0 => (edig # <<>> /\ AllDigits(edig))
        ev == IF sign = "-" THEN 0 - NumVal(edig, 10) ELSE NumVal(edig, 10)
        shift == ev - Len(fp)
        m == NumVal(ip \o fp, 10)
    IN IF s \in {<<"I", "n", "f", "i", "n", "i", "t", "y">>, <<"i", "n", "f">>}
       THEN [exc |-> "OverflowError", v |-> 0]
       ELSE IF ~ok THEN [exc |-> "ValueError", v |-> 0]
       ELSE [exc |-> "none",
             v |-> IF shift >= 0 THEN m * Pow10(shift) ELSE m \div Pow10(0 - shift)]


----------------------------------------------------------------------------
(* The escape-aware JSON decoder.                                          *)

IsSurrogate(code) == 55296 <= code /\ code <= 57343

\* Whether the text starts with a match of \\x([\dA-Fa-f]{2})
MatchesHexX(s) ==
    Len(s) >= 4 /\ s[1] = Backslash /\ s[2] = "x" /\ AllHex(SubSeq(s, 3, 4))

\* Whether the text starts with a match of \\u([\dA-Fa-f]{4})
MatchesHexU(s) ==
    Len(s) >= 6 /\ s[1] = Backslash /\ s[2] = "u" /\ AllHex(SubSeq(s, 3, 6))

\* _convert_hex_escape without the surrogate test of line 34
_convert_hex_escape_any_code(match) == <<Chr(NumVal(Slice(match, 3, Len(match)), 16))>>

\* _convert_hex_escape: match is the matched text (backslash, x or u, digits)
_convert_hex_escape(match) ==
    LET char_code == NumVal(Slice(match, 3, Len(match)), 16)
    IN IF IsSurrogate(char_code) THEN <<Backslash>> \o match
       ELSE <<Chr(char_code)>>

\* re.sub of the hex/unicode escape pattern: leftmost matches, left to right,
\* the scan going on after each match
RECURSIVE SubHexEscapes(_)
SubHexEscapes(s) ==
    IF s = <<>> THEN <<>>
    ELSE IF MatchesHexX(s)
    THEN _convert_hex_escape(SubSeq(s, 1, 4)) \o SubHexEscapes(Slice(s, 5, Len(s)))
    ELSE IF MatchesHexU(s)
    THEN _convert_hex_escape(SubSeq(s, 1, 6)) \o SubHexEscapes(Slice(s, 7, Len(s)))
    ELSE <<Head(s)>> \o SubHexEscapes(Tail(s))

\* re.sub(r'\\(.)', r'\1', text): a backslash and the character after it (any
\* but a newline) become that character
RECURSIVE CollapseBackslashes(_)
CollapseBackslashes(s) ==
    IF s = <<>> THEN <<>>
    ELSE IF Head(s) = Backslash /\ Len(s) >= 2 /\ s[2] # "\n"
    THEN <<s[2]>> \o CollapseBackslashes(Slice(s, 3, Len(s)))
    ELSE <<Head(s)>> \o CollapseBackslashes(Tail(s))

\* The text _unescape_and_parse_json hands to the JSON parser
UnescapedText(text) == CollapseBackslashes(SubHexEscapes(text))

(* JSON values: [k, s, items].  k is "num" (s the digits), "str" (s the     *)
(* decoded characters), "lit" (s the name: true, false, null), "arr" (items *)
(* the elements), "obj" (items the members in insertion order, each a       *)
(* "pair" whose s is the key and whose items holds the value).              *)
JNum(digits) == [k |-> "num", s |-> digits, items |-> <<>>]
JStr(chars) == [k |-> "str", s |-> chars, items |-> <<>>]
JLit(name) == [k |-> "lit", s |-> name, items |-> <<>>]
JArr(items) == [k |-> "arr", s |-> <<>>, items |-> items]
JPair(key, val) == [k |-> "pair", s |-> key, items |-> <<val>>]
JObj(pairs) == [k |-> "obj", s |-> <<>>, items |-> pairs]

JFail == [ok |-> FALSE, val |-> JLit(<<>>), i |-> 0]
JOk(val, i) == [ok |-> TRUE, val |-> val, i |-> i]

JsonWhitespace == {" ", "\n", "\t", "\r"}

RECURSIVE SkipWs(_, _)
SkipWs(s, i) == IF i <= Len(s) /\ s[i] \in JsonWhitespace THEN SkipWs(s, i + 1) ELSE i

\* dict assignment: a repeated key keeps its place and takes the new value
RECURSIVE DictSet(_, _, _)
DictSet(pairs, key, val) ==
    IF pairs = <<>> THEN <<JPair(key, val)>>
    ELSE IF Head(pairs).s = key THEN <<JPair(key, val)>> \o Tail(pairs)
    ELSE <<Head(pairs)>> \o DictSet(Tail(pairs), key, val)

RECURSIVE ParseJsonString(_, _, _)

\* A \uXXXX escape at position i: its character, or for a surrogate pair the
\* character of the pair; a lone surrogate is an error
UnicodeEscape(s, i, acc, code, low) ==
    IF ~IsSurrogate(code) THEN ParseJsonString(s, i + 6, Append(acc, Chr(code)))
    ELSE IF code <= 56319 /\ 56320 <= low /\ low <= 57343
    THEN ParseJsonString(s, i + 12,
             Append(acc, Chr(65536 + (code - 55296) * 1024 + (low - 56320))))
    ELSE JFail

LowSurrogate(rest) == IF MatchesHexU(rest) THEN NumVal(SubSeq(rest, 3, 6), 16) ELSE 0

\* The escape whose backslash is at position i, c being the character after it
JsonEscape(s, i, acc, c) ==
    IF c \in {Quote, Backslash, "/"} THEN ParseJsonString(s, i + 2, Append(acc, c))
    ELSE IF c \in {"n", "t", "r", "b", "f"}
    THEN ParseJsonString(s, i + 2,
             Append(acc, CASE c = "n" -> "\n" [] c = "t" -> "\t" [] c = "r" -> "\r"
                           [] c = "b" -> "U+8" [] c = "f" -> "U+12"))
    ELSE IF MatchesHexU(Slice(s, i, Len(s)))
    THEN UnicodeEscape(s, i, acc, NumVal(SubSeq(s, i + 2, i + 5), 16),
                       LowSurrogate(Slice(s, i + 6, Len(s))))
    ELSE JFail

\* The characters of a JSON string from position i (after the opening quote)
ParseJsonString(s, i, acc) ==
    IF i > Len(s) THEN JFail
    ELSE IF s[i] = Quote THEN JOk(JStr(acc), i + 1)
    ELSE IF s[i] \in {"\n", "\t", "\r"} THEN JFail
    ELSE IF s[i] # Backslash THEN ParseJsonString(s, i + 1, Append(acc, s[i]))
    ELSE IF i + 1 > Len(s) THEN JFail
    ELSE JsonEscape(s, i, acc, s[i + 1])

\* The end of the run of digits from position i
RECURSIVE DigitsEnd(_, _)
DigitsEnd(s, i) == IF i <= Len(s) /\ IsDigit(s[i]) THEN DigitsEnd(s, i + 1) ELSE i

JsonLiterals ==
    {<<"t", "r", "u", "e">>, <<"f", "a", "l", "s", "e">>, <<"n", "u", "l", "l">>}

RECURSIVE ParseJsonValue(_, _)
RECURSIVE ParseJsonArray(_, _, _)
RECURSIVE ParseJsonObject(_, _, _)

\* After an array element v: a comma and the next element, or the ]
ArrayAfterElement(s, acc, v, j) ==
    IF ~v.ok \/ j > Len(s) THEN JFail
    ELSE IF s[j] = "]" THEN JOk(JArr(Append(acc, v.val)), j + 1)
    ELSE IF s[j] = "," THEN ParseJsonArray(s, j + 1, Append(acc, v.val))
    ELSE JFail

ArrayElement(s, acc, v) ==
    IF ~v.ok THEN JFail ELSE ArrayAfterElement(s, acc, v, SkipWs(s, v.i))

\* The elements of an array from position i, up to and including the ]
ParseJsonArray(s, i, acc) == ArrayElement(s, acc, ParseJsonValue(s, i))

\* After a member key: v: a comma and the next member, or the }
ObjectAfterMember(s, acc, key, v, j) ==
    IF ~v.ok \/ j > Len(s) THEN JFail
    ELSE IF s[j] = "}" THEN JOk(JObj(DictSet(acc, key.val.s, v.val)), j + 1)
    ELSE IF s[j] = "," THEN ParseJsonObject(s, j + 1, DictSet(acc, key.val.s, v.val))
    ELSE JFail

ObjectMember(s, acc, key, v) ==
    IF ~v.ok THEN JFail ELSE ObjectAfterMember(s, acc, key, v, SkipWs(s, v.i))

ObjectAfterKey(s, acc, key, c) ==
    IF key.ok /\ c <= Len(s) /\ s[c] = ":"
    THEN ObjectMember(s, acc, key, ParseJsonValue(s, c + 1))
    ELSE JFail

ObjectKey(s, acc, key) ==
    IF ~key.ok THEN JFail ELSE ObjectAfterKey(s, acc, key, SkipWs(s, key.i))

ObjectFrom(s, i, acc) ==
    IF i <= Len(s) /\ s[i] = Quote
    THEN ObjectKey(s, acc, ParseJsonString(s, i + 1, <<>>))
    ELSE JFail

\* The members of an object from position i, up to and including the }
ParseJsonObject(s, i, acc) == ObjectFrom(s, SkipWs(s, i), acc)

ArrayOpen(s, j) ==
    IF j <= Len(s) /\ s[j] = "]" THEN JOk(JArr(<<>>), j + 1)
    ELSE ParseJsonArray(s, j, <<>>)

ObjectOpen(s, j) ==
    IF j <= Len(s) /\ s[j] = "}" THEN JOk(JObj(<<>>), j + 1)
    ELSE ParseJsonObject(s, j, <<>>)

NumberAt(s, i, j) ==
    IF s[i] = "0" /\ j > i + 1 THEN JFail ELSE JOk(JNum(SubSeq(s, i, j - 1)), j)

LiteralAt(s, i, rest) ==
    IF \E l \in JsonLiterals : StartsWith(rest, l)
    THEN JOk(JLit(CHOOSE l \in JsonLiterals : StartsWith(rest, l)),
             i + Len(CHOOSE l \in JsonLiterals : StartsWith(rest, l)))
    ELSE JFail

ValueAt(s, i) ==
    IF i > Len(s) THEN JFail
    ELSE IF s[i] = Quote THEN ParseJsonString(s, i + 1, <<>>)
    ELSE IF s[i] = "[" THEN ArrayOpen(s, SkipWs(s, i + 1))
    ELSE IF s[i] = "{" THEN ObjectOpen(s, SkipWs(s, i + 1))
    ELSE IF IsDigit(s[i]) THEN NumberAt(s, i, DigitsEnd(s, i))
    ELSE LiteralAt(s, i, Slice(s, i, Len(s)))

\* One JSON value from position i (leading whitespace skipped)
ParseJsonValue(s, i) == ValueAt(s, SkipWs(s, i))

WholeText(text, v) ==
    IF v.ok /\ SkipWs(text, v.i) > Len(text)
    THEN [exc |-> "none", val |-> v.val]
    ELSE [exc |-> "ValueError", val |-> JLit(<<>>)]

\* pydantic_core.from_json: one value and nothing but whitespace after it;
\* anything else is a ValueError
from_json(text) == WholeText(text, ParseJsonValue(text, 1))

\* _unescape_and_parse_json
_unescape_and_parse_json(text) == from_json(UnescapedText(text))


----------------------------------------------------------------------------
(* Texts the recognizers compare token texts with.                         *)

T_JSON == <<"J", "S", "O", "N">>
T_parse == <<"p", "a", "r", "s", "e">>
T_try == <<"t", "r", "y">>
T_function == <<"f", "u", "n", "c", "t", "i", "o", "n">>
T_exports == <<"e", "x", "p", "o", "r", "t", "s">>
T_seo == <<"s", "e", "o">>
P_api == <<"/", "a", "p", "i", "/">>
P_next == <<"_", "n", "e", "x", "t">>
P_next_static == P_next \o <<"/", "s", "t", "a", "t", "i", "c">>
P_https == <<"h", "t", "t", "p", "s", ":", "/", "/">>
P_http == <<"h", "t", "t", "p", ":", "/", "/">>
P_ftp == <<"f", "t", "p", ":", "/", "/">>

\* An optional function ID: FunctionID | None
NoId == [has |-> FALSE, v |-> 0]
SomeId(n) == [has |-> TRUE, v |-> n]

----------------------------------------------------------------------------
(* The inlined-JSON recognizer.  A result is [exc, id, val]: exc names the *)
(* exception raised ("none" when the call returned).                       *)

Raise(e) == [exc |-> e, id |-> 0, val |-> JLit(<<>>)]

\* line 106: the (module ID, parsed object), n being int(float(key.text))
OwnerKey(n, j) ==
    IF n.exc # "none" THEN Raise(n.exc) ELSE [exc |-> "none", id |-> n.v, val |-> j]

\* parse_json_literal, lines 92-106: the owner ID, read off the tokens before
\* the block the JSON token is directly in
JsonOwner(toks, json_token, j) ==
    LET function_body_start == toks[json_token].parent
    IN IF function_body_start = None THEN Raise("AttributeError")
       ELSE
       LET function_args_end == toks[function_body_start].previous
           function_args_begin == toks[function_args_end].opened
       IN IF function_args_begin = None THEN Raise("UnexpectedParseError")
          ELSE
          LET function_keyword == toks[function_args_begin].previous
              colon == toks[function_keyword].previous
          IN IF colon = None THEN Raise("AttributeError")
             ELSE
             LET key == toks[colon].previous
             IN IF key = None THEN Raise("AttributeError")
                ELSE
                OwnerKey(PyIntOfFloat(toks[key].text), j)

\* parse_json_literal, lines 88-106: j is the decoded argument
JsonDecoded(toks, json_token, j) ==
    IF j.exc # "none" THEN Raise(j.exc) ELSE JsonOwner(toks, json_token, j.val)

\* parse_json_literal without the test of line 83 that the literal is the only
\* argument
parse_json_literal_first_arg(toks, json_token, parse_token) ==
    LET json_parse_arg == toks[toks[parse_token].next].next
    IN IF toks[json_parse_arg].type # "TK_STRING" THEN Raise("NotParseableError")
       ELSE JsonDecoded(toks, json_token,
                _unescape_and_parse_json(StripQuotes(toks[json_parse_arg].text)))

\* parse_json_literal
parse_json_literal(toks, json_token, parse_token) ==
    LET json_parse_start == toks[parse_token].next
    IN IF json_parse_start = None THEN Raise("AttributeError")
       ELSE
       LET json_parse_arg == toks[json_parse_start].next
       IN IF json_parse_arg = None THEN Raise("AttributeError")
          ELSE IF toks[json_parse_arg].type # "TK_STRING" THEN Raise("NotParseableError")
          ELSE IF toks[json_parse_arg].next # toks[json_parse_start].closed
          THEN Raise("NotParseableError")
          ELSE JsonDecoded(toks, json_token,
                   _unescape_and_parse_json(StripQuotes(toks[json_parse_arg].text)))

----------------------------------------------------------------------------
(* The API call-site recognizer.  A result is [exc, is_function, fn, url].  *)

NoFunction == [name |-> <<>>, args |-> <<>>, body |-> <<>>, url |-> <<>>, method |-> <<>>]
ApiRaise(e) == [exc |-> e, is_function |-> FALSE, fn |-> NoFunction, url |-> <<>>]

RECURSIVE Newlines(_)
Newlines(n) == IF n = 0 THEN <<>> ELSE <<"\n">> \o Newlines(n - 1)

\* parse_api_url, lines 133-137: the text of the tokens from `from` up to, but
\* not including, `stop` (or to the end of the stream when stop is None)
RECURSIVE BodyText(_, _, _)
BodyText(toks, from, stop) ==
    IF from = stop \/ from = None THEN <<>>
    ELSE Newlines(toks[from].newlines) \o toks[from].whitespace_before
         \o toks[from].text \o BodyText(toks, toks[from].next, stop)

\* The argument list of lines 146-150 without the TK_COMMA filter
RECURSIVE ChildTexts_with_commas(_, _, _)
ChildTexts_with_commas(toks, i, p) ==
    IF i > Len(toks) THEN <<>>
    ELSE (IF toks[i].parent = p THEN <<toks[i].text>> ELSE <<>>)
         \o ChildTexts_with_commas(toks, i + 1, p)

\* The texts of the tokens of the stream whose parent is p and which are not
\* commas, in stream order
RECURSIVE ChildTexts(_, _, _)
ChildTexts(toks, i, p) ==
    IF i > Len(toks) THEN <<>>
    ELSE (IF toks[i].parent = p /\ toks[i].type # "TK_COMMA" THEN <<toks[i].text>> ELSE <<>>)
         \o ChildTexts(toks, i + 1, p)

\* parse_api_url
parse_api_url(toks, text_token) ==
    LET method_args_start == toks[text_token].parent
    IN IF method_args_start = None THEN ApiRaise("AttributeError")
       ELSE
       LET try_block_start == toks[method_args_start].parent
       IN IF try_block_start = None THEN ApiRaise("AttributeError")
          ELSE IF toks[toks[try_block_start].previous].text # T_try
          THEN [exc |-> "none", is_function |-> FALSE, fn |-> NoFunction,
                url |-> StripQuotes(toks[text_token].text)]
          ELSE
          LET function_def_start == toks[try_block_start].parent
          IN IF function_def_start = None THEN ApiRaise("AttributeError")
             ELSE
             LET body == BodyText(toks, function_def_start, toks[function_def_start].closed)
                 function_args_end == toks[function_def_start].previous
                 function_args_begin == toks[function_args_end].opened
             IN IF function_args_begin = None THEN ApiRaise("AttributeError")
                ELSE
                LET function_name == toks[function_args_begin].previous
                IN [exc |-> "none", is_function |-> TRUE, url |-> <<>>,
                    fn |-> [name |-> toks[function_name].text,
                            args |-> ChildTexts(toks, FirstToken, function_args_begin),
                            body |-> body,
                            url |-> StripQuotes(toks[text_token].text),
                            method |-> toks[toks[method_args_start].previous].text]]

----------------------------------------------------------------------------
(* The array/object literal recognizer.                                    *)

\* get_function_id, the loop from token t upwards
RECURSIVE FunctionIdFrom(_, _)
FunctionIdFrom(toks, t) ==
    IF t = None THEN NoId
    ELSE
    LET prev == toks[t].previous
        opener == IF prev # None THEN toks[prev].opened ELSE None
        is_body == /\ toks[t].type = "TK_START_BLOCK" /\ toks[t].text = <<"{">>
                   /\ prev # None
                   /\ toks[prev].type = "TK_END_EXPR" /\ toks[prev].text = <<")">>
        is_function == /\ is_body /\ opener # None
                       /\ toks[toks[opener].previous].type = "TK_RESERVED"
                       /\ toks[toks[opener].previous].text = T_function
        function_id_token ==
            IF is_function THEN toks[toks[toks[opener].previous].previous].previous
            ELSE None
        n == IF function_id_token # None /\ toks[function_id_token].type = "TK_WORD"
             THEN PyInt(toks[function_id_token].text)
             ELSE [exc |-> "ValueError", v |-> 0]
    IN IF n.exc = "none" THEN SomeId(n.v) ELSE FunctionIdFrom(toks, toks[t].parent)

\* get_function_id
get_function_id(toks, token) == FunctionIdFrom(toks, toks[token].parent)

NoLiteral == [kind |-> "none", function_id |-> NoId, variable_name |-> <<>>, value |-> <<>>]

\* The loop of lines 214-227 going past an element that is not a string
\* instead of returning None
RECURSIVE ArrayItems_skipping(_, _, _, _)
ArrayItems_skipping(toks, t, closed, list_items) ==
    IF t = None \/ t = closed THEN [ok |-> TRUE, items |-> list_items]
    ELSE IF toks[t].type # "TK_STRING"
    THEN ArrayItems_skipping(toks, toks[t].next, closed, list_items)
    ELSE
    LET items == Append(list_items, StripQuotes(toks[t].text))
        nx == toks[t].next
    IN IF nx = closed THEN [ok |-> TRUE, items |-> items]
       ELSE IF nx # None /\ toks[nx].type = "TK_COMMA"
       THEN ArrayItems_skipping(toks, toks[nx].next, closed, items)
       ELSE ArrayItems_skipping(toks, nx, closed, items)

\* maybe_parse_literal, lines 214-227: the loop over an array's elements;
\* [ok, items], ok FALSE where the code returns None
RECURSIVE ArrayItems(_, _, _, _)
ArrayItems(toks, t, closed, list_items) ==
    IF t = None \/ t = closed THEN [ok |-> TRUE, items |-> list_items]
    ELSE IF toks[t].type # "TK_STRING" THEN [ok |-> FALSE, items |-> <<>>]
    ELSE
    LET items == Append(list_items, StripQuotes(toks[t].text))
        nx == toks[t].next
    IN IF nx = closed THEN [ok |-> TRUE, items |-> items]
       ELSE IF nx # None /\ toks[nx].type = "TK_COMMA"
       THEN ArrayItems(toks, toks[nx].next, closed, items)
       ELSE ArrayItems(toks, nx, closed, items)

\* items[key] = value on a dict kept as a sequence of <<key, value>>
RECURSIVE ItemSet(_, _, _)
ItemSet(items, key, value) ==
    IF items = <<>> THEN <<(<<key, value>>)>>
    ELSE IF Head(items)[1] = key THEN <<(<<key, value>>)>> \o Tail(items)
    ELSE <<Head(items)>> \o ItemSet(Tail(items), key, value)

\* maybe_parse_literal, lines 232-257: the loop over an object's entries
RECURSIVE ObjectItems(_, _, _, _)
ObjectItems(toks, t, closed, items) ==
    IF t = None \/ t = closed THEN [ok |-> TRUE, items |-> items]
    ELSE
    LET nx == toks[t].next
        is_key == /\ toks[t].type \in {"TK_WORD", "TK_RESERVED"}
                  /\ nx # None
                  /\ toks[nx].type = "TK_OPERATOR" /\ toks[nx].text = <<":">>
        v == IF is_key THEN toks[nx].next ELSE None
    IN IF ~is_key \/ v = None \/ toks[v].type # "TK_STRING"
       THEN [ok |-> FALSE, items |-> <<>>]
       ELSE
       LET its == ItemSet(items, toks[t].text, StripQuotes(toks[v].text))
           vn == toks[v].next
       IN IF vn = closed THEN [ok |-> TRUE, items |-> its]
          ELSE IF vn # None /\ toks[vn].type = "TK_COMMA"
          THEN ObjectItems(toks, toks[vn].next, closed, its)
          ELSE ObjectItems(toks, vn, closed, its)

\* lines 228 and 258: the literal returned when the loop r ran to its end
LiteralOf(kind, toks, eq_token, name, r) ==
    IF ~r.ok THEN NoLiteral
    ELSE [kind |-> kind, function_id |-> get_function_id(toks, eq_token),
          variable_name |-> name, value |-> r.items]

\* maybe_parse_literal
maybe_parse_literal(toks, eq_token) ==
    LET name_token == toks[eq_token].previous
        name == toks[name_token].text
        start_token == toks[eq_token].next
    IN IF name_token = None \/ toks[name_token].type # "TK_WORD" THEN NoLiteral
       ELSE IF name \in {T_exports, T_seo} THEN NoLiteral
       ELSE IF start_token = None \/ toks[start_token].next = toks[start_token].closed
       THEN NoLiteral
       ELSE IF toks[start_token].type = "TK_START_EXPR" /\ toks[start_token].text = <<"[">>
       THEN LiteralOf("array", toks, eq_token, name,
                ArrayItems(toks, toks[start_token].next, toks[start_token].closed, <<>>))
       ELSE IF toks[start_token].type = "TK_START_BLOCK" /\ toks[start_token].text = <<"{">>
       THEN LiteralOf("object", toks, eq_token, name,
                ObjectItems(toks, toks[start_token].next, toks[start_token].closed, <<>>))
       ELSE NoLiteral


----------------------------------------------------------------------------
(* _find_interesting_things_in_js: the scan over the tokens of one file.   *)

\* str.split('/') without the empty and the "." parts, as PurePosixPath keeps
\* them for a relative path
RECURSIVE PathParts(_, _)
PathParts(s, cur) ==
    LET keep == IF cur \in {<<>>, <<".">>} THEN <<>> ELSE <<cur>>
    IN IF s = <<>> THEN keep
       ELSE IF Head(s) = "/" THEN keep \o PathParts(Tail(s), <<>>)
       ELSE PathParts(Tail(s), Append(cur, Head(s)))

RECURSIVE JoinPath(_)
JoinPath(parts) ==
    IF parts = <<>> THEN <<>>
    ELSE IF Len(parts) = 1 THEN parts[1]
    ELSE parts[1] \o <<"/">> \o JoinPath(Tail(parts))

\* URLPath(text), for a text that does not start with a slash: the path
\* PurePosixPath normalises it to
URLPath(text) ==
    LET parts == PathParts(text, <<>>)
    IN IF parts = <<>> THEN <<".">> ELSE JoinPath(parts)

\* The locals of the scan when it starts (lines 285-293)
EmptyThings ==
    [api_functions |-> <<>>, other_api_urls |-> {}, static_urls |-> {},
     jsons |-> <<>>, other_urls |-> {}, arrays |-> <<>>, objects |-> <<>>,
     already_parsed |-> {}]

\* jsons[id] = val on a dict kept as a sequence of [id, val]
RECURSIVE JsonSet(_, _, _)
JsonSet(jsons, id, val) ==
    IF jsons = <<>> THEN <<[id |-> id, val |-> val]>>
    ELSE IF Head(jsons).id = id THEN <<[id |-> id, val |-> val]>> \o Tail(jsons)
    ELSE <<Head(jsons)>> \o JsonSet(Tail(jsons), id, val)

\* The outcome of one iteration: the locals after it, the exception that left
\* it ("none" when it ran to its end), the condition it caught and logged
Ran(th) == [things |-> th, exc |-> "none", signal |-> "none"]
Threw(th, e) == [things |-> th, exc |-> e, signal |-> "none"]
Logged(th, sig) == [things |-> th, exc |-> "none", signal |-> sig]

StaticPrefixes == {<<"/">> \o P_next_static \o <<"/">>, P_next_static}
OtherPrefixes == {<<"/">> \o P_next, P_next, P_https, P_http, P_ftp}

\* lines 299-304: the static/other URL classification of a literal's text
ClassifyUrl(th, i, text) ==
    IF StartsWithAny(text, StaticPrefixes)
    THEN [th EXCEPT !.static_urls = @ \cup {URLPath(RemovePrefix(text, <<"/">>))},
                    !.already_parsed = @ \cup {i}]
    ELSE IF StartsWithAny(text, OtherPrefixes)
    THEN [th EXCEPT !.other_urls = @ \cup {RemovePrefix(text, <<"/">>)},
                    !.already_parsed = @ \cup {i}]
    ELSE th

\* lines 307-311 with the text added to api_urls for an APIFunction as well
ApiFound_also_url(th, i, text, api) ==
    IF api.exc # "none" THEN Threw(th, api.exc)
    ELSE IF api.is_function
    THEN Ran([th EXCEPT !.api_functions = Append(@, api.fn),
                        !.other_api_urls = @ \cup {text},
                        !.already_parsed = @ \cup {i}])
    ELSE Ran([th EXCEPT !.other_api_urls = @ \cup {text},
                        !.already_parsed = @ \cup {i}])

\* lines 307-311: api is what parse_api_url returned or raised
ApiFound(th, i, text, api) ==
    IF api.exc # "none" THEN Threw(th, api.exc)
    ELSE IF api.is_function
    THEN Ran([th EXCEPT !.api_functions = Append(@, api.fn),
                        !.already_parsed = @ \cup {i}])
    ELSE Ran([th EXCEPT !.other_api_urls = @ \cup {text},
                        !.already_parsed = @ \cup {i}])

\* lines 305-311: the API classification of a literal's text
ClassifyApi(toks, th, i, text) ==
    IF ~StartsWith(text, P_api) THEN Ran(th)
    ELSE ApiFound(th, i, text, parse_api_url(toks, i))

\* lines 297-311: a string literal
ScanString(toks, th, i) ==
    ClassifyApi(toks, ClassifyUrl(th, i, StripQuotes(toks[i].text)), i,
                StripQuotes(toks[i].text))

\* lines 318-327: j is what parse_json_literal returned or raised
JsonFound(th, i, func_name, j) ==
    IF j.exc \in {"UnexpectedParseError", "NotParseableError"} THEN Logged(th, j.exc)
    ELSE IF j.exc # "none" THEN Threw(th, j.exc)
    ELSE Ran([th EXCEPT !.already_parsed = @ \cup {i, func_name},
                        !.jsons = JsonSet(@, j.id, j.val)])

\* lines 313-327: the word JSON
ScanJson(toks, th, i) ==
    LET dot == toks[i].next
        func_name == toks[dot].next
    IN IF func_name = None THEN Threw(th, "AttributeError")
       ELSE IF toks[func_name].text # T_parse THEN Ran(th)
       ELSE JsonFound(th, i, func_name, parse_json_literal(toks, i, func_name))

\* lines 330-333: what maybe_parse_literal returned
LiteralFound(th, maybe_literal) ==
    IF maybe_literal.kind = "array"
    THEN Ran([th EXCEPT !.arrays = Append(@, maybe_literal)])
    ELSE IF maybe_literal.kind = "object"
    THEN Ran([th EXCEPT !.objects = Append(@, maybe_literal)])
    ELSE Ran(th)

\* lines 328-333: an equals sign
ScanEquals(toks, th, i) == LiteralFound(th, maybe_parse_literal(toks, i))

\* lines 294-333: the body of `for token in tokens`, at arena index i
ScanToken(toks, th, i) ==
    IF i \in th.already_parsed THEN Ran(th)
    ELSE IF toks[i].type = "TK_STRING" THEN ScanString(toks, th, i)
    ELSE IF toks[i].type = "TK_WORD" /\ toks[i].text = T_JSON THEN ScanJson(toks, th, i)
    ELSE IF toks[i].type = "TK_EQUALS" THEN ScanEquals(toks, th, i)
    ELSE Ran(th)

\* The scan from index i on: the locals at the return, or the exception
RECURSIVE ScanFrom(_, _, _)
ScanNext(toks, i, r) ==
    IF r.exc # "none" THEN r ELSE ScanFrom(toks, r.things, i + 1)
ScanFrom(toks, th, i) ==
    IF i > Len(toks) THEN Ran(th) ELSE ScanNext(toks, i, ScanToken(toks, th, i))

\* _find_interesting_things_in_js(js): the InterestingThings, or the exception
_find_interesting_things_in_js(lexemes) ==
    ScanFrom(Tokenize(lexemes), EmptyThings, FirstToken)


----------------------------------------------------------------------------
(* Source files.  A file is a sequence of lexemes; the files below are the  *)
(* shapes webpack chunks hold: call sites and assignments, alone or nested  *)
(* in function definitions, blocks and calls.                               *)

MaxDepth == 2        \* how many blocks enclose a site
MaxParams == 2       \* how many parameters a named function declares

Word(t) == Lexeme("TK_WORD", t)
Reserved(t) == Lexeme("TK_RESERVED", t)
Operator(t) == Lexeme("TK_OPERATOR", t)
\* a token after a space: `function bar`, `var r`
Spaced(lx) == [lx EXCEPT !.whitespace_before = <<" ">>]
\* a double-quoted literal whose source text between the quotes is `raw`
Str(raw) == Lexeme("TK_STRING", <<Quote>> \o raw \o <<Quote>>)
\* a single-quoted literal
Str1(raw) == Lexeme("TK_STRING", <<Apos>> \o raw \o <<Apos>>)
Equals == Lexeme("TK_EQUALS", <<"=">>)
Comma == Lexeme("TK_COMMA", <<",">>)
Dot == Lexeme("TK_DOT", <<".">>)
Semicolon == Lexeme("TK_SEMICOLON", <<";">>)
LParen == Lexeme("TK_START_EXPR", <<"(">>)
RParen == Lexeme("TK_END_EXPR", <<")">>)
LBracket == Lexeme("TK_START_EXPR", <<"[">>)
RBracket == Lexeme("TK_END_EXPR", <<"]">>)
LBrace == Lexeme("TK_START_BLOCK", <<"{">>)
RBrace == Lexeme("TK_END_BLOCK", <<"}">>)
Colon == Operator(<<":">>)
Plus == Operator(<<"+">>)
Arrow == Operator(<<"=", ">">>)

N_bar == <<"b", "a", "r">>
N_get == <<"g", "e", "t">>
N_post == <<"p", "o", "s", "t">>
L_42 == <<"4", "2">>
L_7 == <<"7">>
L_14e3 == <<"1", "4", "e", "3">>
L_foo == <<"f", "o", "o">>

\* `a, b, ...`: the first n parameter names, comma-separated
ParamNames == <<(<<"x">>), (<<"y">>), (<<"z">>)>>
RECURSIVE ParamList(_)
ParamList(n) ==
    IF n = 0 THEN <<>>
    ELSE IF n = 1 THEN <<Word(ParamNames[1])>>
    ELSE ParamList(n - 1) \o <<Comma, Word(ParamNames[n])>>

\* `<label>: function(e){ inner }`
Labelled(label, inner) ==
    <<Word(label), Colon, Reserved(T_function), LParen, Word(<<"e">>), RParen, LBrace>>
    \o inner \o <<RBrace>>
\* `function <name>(<n parameters>){ inner }`
Named(name, n, inner) ==
    <<Reserved(T_function), Spaced(Word(name)), LParen>> \o ParamList(n)
    \o <<RParen, LBrace>> \o inner \o <<RBrace>>
\* `function(e){ inner }`
Anonymous(inner) ==
    <<Reserved(T_function), LParen, Word(<<"e">>), RParen, LBrace>> \o inner \o <<RBrace>>
\* `(e)=>{ inner }`
ArrowFn(inner) ==
    <<LParen, Word(<<"e">>), RParen, Arrow, LBrace>> \o inner \o <<RBrace>>
\* `if(c){ inner }`
IfBlock(inner) ==
    <<Reserved(<<"i", "f">>), LParen, Word(<<"c">>), RParen, LBrace>> \o inner \o <<RBrace>>
\* `try{ inner }catch(e){}`
TryBlock(inner) ==
    <<Reserved(T_try), LBrace>> \o inner
    \o <<RBrace, Reserved(<<"c", "a", "t", "c", "h">>), LParen, Word(<<"e">>), RParen,
         LBrace, RBrace>>
\* `f( inner )`
Call(inner) == <<Word(<<"f">>), LParen>> \o inner \o <<RParen>>
\* `d.<method>( inner )`
MethodCall(method, inner) ==
    <<Word(<<"d">>), Dot, Word(method), LParen>> \o inner \o <<RParen>>

WrapperKinds ==
    {"labelled42", "labelled14e3", "labelledfoo", "named", "anonymous", "arrow",
     "if", "try", "call"}

Wrap(kind, inner) ==
    CASE kind = "labelled42" -> Labelled(L_42, inner)
      [] kind = "labelled14e3" -> Labelled(L_14e3, inner)
      [] kind = "labelledfoo" -> Labelled(L_foo, inner)
      [] kind = "named" -> Named(N_bar, 1, inner)
      [] kind = "anonymous" -> Anonymous(inner)
      [] kind = "arrow" -> ArrowFn(inner)
      [] kind = "if" -> IfBlock(inner)
      [] kind = "try" -> TryBlock(inner)
      [] kind = "call" -> Call(inner)

\* kinds[1] is the outermost block
RECURSIVE WrapAll(_, _)
WrapAll(kinds, inner) ==
    IF kinds = <<>> THEN inner ELSE Wrap(Head(kinds), WrapAll(Tail(kinds), inner))

\* Every nesting of at most MaxDepth blocks
Nestings == UNION {[1..d -> WrapperKinds] : d \in 0..MaxDepth}

\* `JSON.parse( args )`
JsonParse(args) == <<Word(T_JSON), Dot, Word(T_parse), LParen>> \o args \o <<RParen>>

U_api_foo == P_api \o <<"f", "o", "o">>
U_static == <<"/">> \o P_next_static \o <<"/", "a", ".", "p", "n", "g">>
U_next == <<"/">> \o P_next \o <<"/", "d", "a", "t", "a">>
U_https == P_https \o <<"g", ".", "c", "o">>

\* The sites met at every nesting: a JSON.parse of a literal and of a variable,
\* an /api/ literal alone and as the argument of a method call, an assignment
CoreSites ==
    { JsonParse(<<Str(<<"1">>)>>),
      JsonParse(<<Word(<<"v">>)>>),
      <<Str(U_api_foo)>>,
      MethodCall(N_get, <<Str(U_api_foo)>>),
      <<Word(<<"v">>), Equals, LBracket, Str(<<"a">>), RBracket>> }

NestedSources == {WrapAll(k, site) : k \in Nestings, site \in CoreSites}


\* A JSON.parse call site by the shape of its argument list
JsonArgShapes ==
    { <<Str(<<"1">>)>>,                              \* one string literal
      <<Word(<<"v">>)>>,                             \* a variable
      <<Str(<<"1">>), Plus, Word(<<"v">>)>>,         \* a concatenation
      <<Str(<<"1">>), Comma, Word(<<"v">>)>>,        \* several arguments
      <<>> }                                         \* no argument

\* Other findings in the file of a JSON.parse call site
Siblings ==
    { <<>>,
      <<Str(U_static), Semicolon>>,
      <<Word(<<"v">>), Equals, LBracket, Str(<<"a">>), RBracket, Semicolon>> }

JsonSiteSources ==
    {Labelled(L_42, before \o JsonParse(args) \o <<Semicolon, Str(U_https)>>) :
        before \in Siblings, args \in JsonArgShapes}

\* `<receiver>.<method>( args )` with a one- or two-level receiver
ReceiverCall(levels, method, args) ==
    (IF levels = 2 THEN <<Word(<<"d">>), Dot, Word(<<"M", "b">>), Dot>>
     ELSE <<Word(<<"d">>), Dot>>)
    \o <<Word(method), LParen>> \o args \o <<RParen>>

\* /api/ literals: double-quoted, single-quoted, and one whose text ends in
\* a quote character
ApiLiterals == {Str(U_api_foo), Str1(U_api_foo), Str(U_api_foo \o <<Apos>>)}

\* `function bar(<n parameters>){try{ <receiver>.<method>(<literal>) }catch(e){}}`
ApiFunctionSource(n, levels, method, lit) ==
    Named(N_bar, n, TryBlock(ReceiverCall(levels, method, <<lit>>)))

ApiFunctionSources ==
    {ApiFunctionSource(n, levels, method, lit) :
        n \in 0..MaxParams, levels \in {1, 2}, method \in {N_get, N_post},
        lit \in ApiLiterals}

\* the literal as one of several arguments of the call
ApiSeveralArgsSources ==
    {Named(N_bar, 1, TryBlock(ReceiverCall(1, N_get, <<Str(U_api_foo), Comma, Word(<<"x">>)>>)))}

\* URL literals of each class, statement after statement
UrlSources ==
    {<<Str(a), Semicolon, Str(b)>> :
        a \in {U_static, U_next, U_https, U_api_foo},
        b \in {U_static, Tail(U_static), U_next, <<"a">>}}

----------------------------------------------------------------------------
(* JSON texts inlined in a chunk: the value, its JSON text, and that text   *)
(* written as a JavaScript string literal.                                  *)

\* JSON string / JavaScript string escaping of a text: a backslash before
\* every quote and every backslash
RECURSIVE EscapeQuoted(_)
EscapeQuoted(t) ==
    IF t = <<>> THEN <<>>
    ELSE (IF Head(t) \in {Quote, Backslash} THEN <<Backslash, Head(t)>> ELSE <<Head(t)>>)
         \o EscapeQuoted(Tail(t))

\* The compact JSON text of a value
RECURSIVE JsonText(_)
RECURSIVE JsonTextList(_)
JsonText(v) ==
    CASE v.k = "num" -> v.s
      [] v.k = "lit" -> v.s
      [] v.k = "str" -> <<Quote>> \o EscapeQuoted(v.s) \o <<Quote>>
      [] v.k = "arr" -> <<"[">> \o JsonTextList(v.items) \o <<"]">>
      [] v.k = "obj" -> <<"{">> \o JsonTextList(v.items) \o <<"}">>
      [] v.k = "pair" -> <<Quote>> \o EscapeQuoted(v.s) \o <<Quote, ":">> \o JsonText(v.items[1])
JsonTextList(vs) ==
    IF vs = <<>> THEN <<>>
    ELSE IF Len(vs) = 1 THEN JsonText(vs[1])
    ELSE JsonText(vs[1]) \o <<",">> \o JsonTextList(Tail(vs))

JsonScalars ==
    { JNum(<<"1">>), JNum(<<"2", "0">>), JLit(<<"t", "r", "u", "e">>),
      JStr(<<"a">>), JStr(<<>>), JStr(<<"a", Quote, "b">>) }

JsonValues ==
    JsonScalars
    \cup {JArr(<<v>>) : v \in JsonScalars}
    \cup {JObj(<<JPair(<<"a">>, v)>>) : v \in JsonScalars}
    \cup {JArr(<<>>), JObj(<<>>), JObj(<<JPair(<<"a">>, JArr(<<JNum(<<"1">>)>>))>>)}

\* `<id>: function(e,t,n){var r=JSON.parse("<the JSON text of v, escaped>")}`
InlinedJsonSource(id, v) ==
    <<Word(id), Colon, Reserved(T_function), LParen, Word(<<"e">>), Comma, Word(<<"t">>),
      Comma, Word(<<"n">>), RParen, LBrace, Reserved(<<"v", "a", "r">>), Spaced(Word(<<"r">>)),
      Equals>>
    \o JsonParse(<<Str(EscapeQuoted(JsonText(v)))>>) \o <<RBrace>>

InlinedJsonSources == {InlinedJsonSource(id, v) : id \in {L_42, L_7}, v \in JsonValues}

----------------------------------------------------------------------------
(* Array and object literals by their elements.                             *)

MaxElems == 2        \* how many elements a literal holds

StringElement == <<Str(<<"a">>)>>
ArrayElements ==
    { StringElement,
      <<Str1(<<"b">>)>>,                                   \* a single-quoted string
      <<Word(<<"1">>)>>,                                   \* a number
      <<LBracket, Str(<<"a">>), RBracket>>,                \* a nested array
      <<Str(<<"a">>), Plus, Str(<<"b">>)>>,                \* a concatenation
      <<Operator(<<".", ".", ".">>), Word(<<"w">>)>> }     \* a spread

StringEntry == <<Word(<<"k">>), Colon, Str(<<"a">>)>>
ObjectEntries ==
    { StringEntry,
      <<Reserved(<<"d", "o">>), Colon, Str1(<<"b">>)>>,    \* a reserved word as key
      <<Word(<<"k">>), Colon, Word(<<"1">>)>>,             \* a number
      <<Word(<<"k">>), Colon, LBrace, Word(<<"j">>), Colon, Str(<<"a">>), RBrace>>,
      <<Word(<<"k">>), Colon, Str(<<"a">>), Plus, Str(<<"b">>)>>,
      <<Str(<<"k">>), Colon, Str(<<"a">>)>>,               \* a string key
      <<Word(<<"k">>)>>,                                   \* a shorthand entry
      <<Operator(<<".", ".", ".">>), Word(<<"w">>)>> }     \* a spread

\* elems[1], elems[2], ... separated by commas
RECURSIVE CommaJoin(_)
CommaJoin(elems) ==
    IF elems = <<>> THEN <<>>
    ELSE IF Len(elems) = 1 THEN elems[1]
    ELSE elems[1] \o <<Comma>> \o CommaJoin(Tail(elems))

ElementLists(kinds) == UNION {[1..n -> kinds] : n \in 0..MaxElems}

\* `v = [ e1, e2, ... ]`
ArrayAssignment(elems) ==
    <<Word(<<"v">>), Equals, LBracket>> \o CommaJoin(elems) \o <<RBracket>>
\* `v = { e1, e2, ... }`
ObjectAssignment(entries) ==
    <<Word(<<"v">>), Equals, LBrace>> \o CommaJoin(entries) \o <<RBrace>>

LiteralSources ==
    {ArrayAssignment(es) : es \in ElementLists(ArrayElements)}
    \cup {ObjectAssignment(es) : es \in ElementLists(ObjectEntries)}
    \cup {Labelled(L_42, ArrayAssignment(<<StringElement, e>>)) : e \in ArrayElements}
    \cup {Labelled(L_42, ObjectAssignment(<<StringEntry, e>>)) : e \in ObjectEntries}

\* Files whose delimiters do not nest: a closer with no opener, an opener never
\* closed, a closer of the wrong kind
UnbalancedSources ==
    { <<Str(U_static), Semicolon, RBrace>>,
      <<Str(U_https), RParen, Semicolon, Str(U_static)>>,
      <<LBrace, Str(U_static)>>,
      <<Word(<<"v">>), Equals, LBracket, Str(<<"a">>), RBracket, Semicolon, LParen>>,
      <<LParen, Str(U_next), RBrace>>,
      <<Word(L_42), Colon, Reserved(T_function), LParen, Word(<<"e">>), RParen, LBrace>>
          \o JsonParse(<<Str(<<"1">>)>>) }

\* `var <name>=JSON.parse("<the JSON text of v, escaped>");`
JsonVar(name, v) ==
    <<Reserved(<<"v", "a", "r">>), Spaced(Word(name)), Equals>>
        \o JsonParse(<<Str(EscapeQuoted(JsonText(v)))>>) \o <<Semicolon>>

\* `<id>:function(e,t,n){<body>}`
LabelledFunction(id, body) ==
    <<Word(id), Colon, Reserved(T_function), LParen, Word(<<"e">>), Comma, Word(<<"t">>),
      Comma, Word(<<"n">>), RParen, LBrace>> \o body \o <<RBrace>>

\* Two JSON.parse sites in one file: both in one function, with different
\* and with equal values, the second one not parseable; in two functions
TwoSiteSources ==
    { LabelledFunction(L_42, JsonVar(<<"r">>, JNum(<<"1">>)) \o JsonVar(<<"s">>, JNum(<<"2", "0">>))),
      LabelledFunction(L_42, JsonVar(<<"r">>, JNum(<<"1">>)) \o JsonVar(<<"s">>, JNum(<<"1">>))),
      LabelledFunction(L_42, JsonVar(<<"r">>, JNum(<<"1">>))
                                 \o <<Reserved(<<"v", "a", "r">>), Spaced(Word(<<"s">>)), Equals>>
                                 \o JsonParse(<<Word(<<"x">>)>>) \o <<Semicolon>>),
      <<LBrace>> \o LabelledFunction(L_42, JsonVar(<<"r">>, JNum(<<"1">>))) \o <<Comma>>
          \o LabelledFunction(L_7, JsonVar(<<"r">>, JNum(<<"2", "0">>))) \o <<RBrace>> }

\* The files a run may scan
Sources ==
    NestedSources \cup JsonSiteSources \cup ApiFunctionSources \cup ApiSeveralArgsSources
    \cup UrlSources \cup InlinedJsonSources \cup LiteralSources \cup UnbalancedSources
    \cup TwoSiteSources

----------------------------------------------------------------------------
(* Literal texts given to the decoder: escapes of both forms, in and out of *)
(* the surrogate range, next to backslashes, quotes and plain characters.   *)

MaxPieces == 3       \* how many pieces a literal text is made of

EscapeU(hex) == <<Backslash, "u">> \o hex
EscapeX(hex) == <<Backslash, "x">> \o hex

EscapePieces ==
    { <<Backslash>>,
      EscapeU(<<"D", "8", "0", "0">>),      \* the first surrogate
      EscapeU(<<"D", "F", "F", "F">>),      \* the last surrogate
      EscapeU(<<"d", "b", "f", "f">>),      \* a surrogate in lowercase digits
      EscapeU(<<"D", "7", "F", "F">>),      \* the code before the range
      EscapeU(<<"E", "0", "0", "0">>),      \* the code after the range
      EscapeU(<<"0", "0", "4", "1">>),      \* A
      EscapeX(<<"4", "1">>),                \* A
      EscapeX(<<"5", "C">>),                \* a backslash
      <<"a">>,
      <<Quote>>,
      <<"1">> }

EscapeTexts ==
    {Concat(pieces) : pieces \in UNION {[1..n -> EscapePieces] : n \in 0..MaxPieces}}

\* decoded before from_json has run
NotDecoded == [exc |-> "none", val |-> JLit(<<>>)]

----------------------------------------------------------------------------
(* find_interesting_things_in_all_files: the files and the aggregate.       *)

MaxFiles == 3        \* how many files a directory holds

Ext_js == <<".", "j", "s">>

\* PurePath.suffix of a file name: from the last dot on, when that dot is
\* neither the first nor the last character of the name
suffix(path) ==
    LET dots == {i \in 1..Len(path) : path[i] = "."}
        last == IF dots = {} THEN 0 ELSE CHOOSE i \in dots : \A j \in dots : j <= i
    IN IF last <= 1 \/ last = Len(path) THEN <<>> ELSE SubSeq(path, last, Len(path))

File(path, source) == [path |-> path, js |-> source]

\* The files a directory may hold
Catalog ==
    { File(<<"u", ".", "j", "s">>, <<Str(U_static), Semicolon, Str(U_https)>>),
      File(<<"f", ".", "j", "s">>, ApiFunctionSource(1, 2, N_get, Str(U_api_foo))),
      File(<<"j", ".", "j", "s">>,
           InlinedJsonSource(L_42, JObj(<<JPair(<<"a">>, JNum(<<"1">>))>>))),
      File(<<"l", ".", "j", "s">>, ArrayAssignment(<<StringElement>>)),
      File(<<"e", ".", "j", "s">>, <<>>),
      File(<<"b", ".", "j", "s">>, <<Str(U_api_foo)>>),
      File(<<"s", ".", "j", "s">>, InlinedJsonSource(L_7, JStr(<<"a">>))),
      File(<<"v", ".", "j", "s">>, <<Str(U_next), Semicolon, Str(U_static)>>),
      File(<<"c", ".", "c", "s", "s">>, <<Str(U_static)>>) }

FileSets == {fs \in SUBSET Catalog : Cardinality(fs) <= MaxFiles}

\* InterestingThingsInAllFiles(): five empty dicts
NoResults ==
    [static_urls |-> <<>>, api_functions |-> <<>>, other_api_urls |-> <<>>,
     jsons |-> <<>>, other_urls |-> <<>>]

\* dict[path] = value without the test of lines 46-55 that the value is not empty
DictPut_always(dict, path, value, empty) == (path :> value) @@ dict

\* dict[path] = value when the value is not empty
DictPut(dict, path, value, empty) ==
    IF value = empty THEN dict ELSE (path :> value) @@ dict

\* InterestingThingsInAllFiles.combine
combine(self, path, th) ==
    [static_urls |-> DictPut(self.static_urls, path, th.static_urls, {}),
     api_functions |-> DictPut(self.api_functions, path, th.api_functions, <<>>),
     other_api_urls |-> DictPut(self.other_api_urls, path, th.other_api_urls, {}),
     jsons |-> DictPut(self.jsons, path, th.jsons, <<>>),
     other_urls |-> DictPut(self.other_urls, path, th.other_urls, {})]

----------------------------------------------------------------------------
(* The scan of one file, one token per step.                                *)

\* No file is being scanned
NoScan ==
    /\ js = <<>>
    /\ tokens = <<>>
    /\ pos = 0
    /\ things = EmptyThings
    /\ signal = "none"

\* No literal is being decoded
NoDecode ==
    /\ source_text = <<>>
    /\ unescaped = <<>>
    /\ handed = <<>>
    /\ decoded = NotDecoded

\* No set of files is being gone through
NoGather ==
    /\ source_files = {}
    /\ futures = {}
    /\ results = NoResults

\* No resolver is running
NoResolve ==
    /\ locals = <<>>
    /\ returned = <<>>
    /\ written = {}

scanVars == <<js, tokens, pos, things, signal>>
decodeVars == <<source_text, unescaped, handed, decoded>>
gatherVars == <<source_files, futures, results>>
resolveVars == <<locals, returned, written>>

Init ==
    /\ js \in Sources
    /\ tokens = Tokenize(js)
    /\ pos = FirstToken
    /\ things = EmptyThings
    /\ raised = "none"
    /\ signal = "none"
    /\ pc = "scan"
    /\ NoDecode
    /\ NoGather
    /\ NoResolve

\* What an iteration leaves: the locals, and the exception if it raised
Outcome(r) ==
    /\ things' = r.things
    /\ signal' = r.signal
    /\ raised' = r.exc
    /\ pc' = IF r.exc # "none" THEN "raised" ELSE "scan"
    /\ pos' = IF r.exc # "none" THEN pos ELSE pos + 1

\* One iteration of `for token in tokens`
Scan ==
    /\ pc = "scan"
    /\ pos <= Len(tokens)
    /\ Outcome(ScanToken(tokens, things, pos))
    /\ UNCHANGED <<js, tokens, decodeVars, gatherVars, resolveVars>>

\* The loop is over: the InterestingThings are returned
Return ==
    /\ pc = "scan"
    /\ pos > Len(tokens)
    /\ pc' = "returned"
    /\ signal' = "none"
    /\ UNCHANGED <<js, tokens, pos, things, raised, decodeVars, gatherVars, resolveVars>>

Next == Scan \/ Return

Spec == Init /\ [][Next]_vars

----------------------------------------------------------------------------
(* The decoding of one literal's text by _unescape_and_parse_json.          *)

InitDecode ==
    /\ source_text \in EscapeTexts
    /\ unescaped = <<>>
    /\ handed = <<>>
    /\ decoded = NotDecoded
    /\ raised = "none"
    /\ pc = "decode"
    /\ NoScan
    /\ NoGather
    /\ NoResolve

\* What the call leaves: j is what from_json returned or raised
Parsed(j) ==
    /\ decoded' = j
    /\ raised' = j.exc
    /\ pc' = IF j.exc # "none" THEN "raised" ELSE "decoded"

\* _unescape_and_parse_json(source_text)
Decode ==
    /\ pc = "decode"
    /\ unescaped' = SubHexEscapes(source_text)
    /\ handed' = CollapseBackslashes(unescaped')
    /\ Parsed(from_json(handed'))
    /\ UNCHANGED <<source_text, scanVars, gatherVars, resolveVars>>

NextDecode == Decode

SpecDecode == InitDecode /\ [][NextDecode]_vars

----------------------------------------------------------------------------
(* find_interesting_things_in_all_files over the files of a directory.      *)

InitGather ==
    /\ source_files \in FileSets
    /\ futures = {file \in source_files : suffix(file.path) = Ext_js}
    /\ results = NoResults
    /\ raised = "none"
    /\ pc = "gather"
    /\ NoScan
    /\ NoDecode
    /\ NoResolve

\* `file, things = await result` and what follows: r is what the scan of the
\* file returned or raised
Awaited(file, r) ==
    /\ raised' = r.exc
    /\ pc' = IF r.exc # "none" THEN "gather_raised" ELSE "gather"
    /\ results' = IF r.exc # "none" THEN results ELSE combine(results, file.path, r.things)
    /\ futures' = futures \ {file}

\* One iteration of the loop over asyncio.as_completed(futures)
Complete ==
    /\ pc = "gather"
    /\ \E file \in futures : Awaited(file, _find_interesting_things_in_js(file.js))
    /\ UNCHANGED <<source_files, scanVars, decodeVars, resolveVars>>

\* Every future has been awaited: results is returned
ReturnResults ==
    /\ pc = "gather"
    /\ futures = {}
    /\ pc' = "gather_returned"
    /\ UNCHANGED <<source_files, futures, results, raised, scanVars, decodeVars, resolveVars>>

NextGather == Complete \/ ReturnResults

SpecGather == InitGather /\ [][NextGather]_vars


----------------------------------------------------------------------------
(* typedefs.URLPath: PurePosixPath.                                          *)

\* The number of slashes a text begins with
RECURSIVE LeadingSlashes(_)
LeadingSlashes(s) ==
    IF s # <<>> /\ Head(s) = "/" THEN 1 + LeadingSlashes(Tail(s)) ELSE 0

\* PurePosixPath(text): empty and `.` components dropped, the root kept (two
\* leading slashes are kept as two, any other number as one)
PurePosixPath(text) ==
    LET parts == PathParts(text, <<>>)
        n == LeadingSlashes(text)
    IN IF n = 0 THEN (IF parts = <<>> THEN <<".">> ELSE JoinPath(parts))
       ELSE (IF n = 2 THEN <<"/", "/">> ELSE <<"/">>) \o JoinPath(parts)

\* PurePosixPath(base) / text: an absolute right operand replaces the left one
PathDiv(base, text) ==
    IF text = <<>> THEN PurePosixPath(base)
    ELSE IF Head(text) = "/" THEN PurePosixPath(text)
    ELSE PurePosixPath(base \o <<"/">> \o text)

----------------------------------------------------------------------------
(* webpack.py: the chunk-map resolver.  A dict is the sequence of its items *)
(* in insertion order, each [key, value].                                   *)

T_h == <<"h">>
T_u == <<"u">>
T_e == <<"e">>
T_eqeqeq == <<"=", "=", "=">>
T_return == <<"r", "e", "t", "u", "r", "n">>
P_next_root == <<"_", "n", "e", "x", "t", "/">>
P_chunks == <<"_", "n", "e", "x", "t", "/", "s", "t", "a", "t", "i", "c", "/", "c", "h", "u", "n", "k", "s", "/">>
S_js == <<".", "j", "s">>

\* _is_h_u_function
_is_h_u_function(toks, token) ==
    IF toks[token].type = "TK_WORD" /\ toks[token].text = T_h
    THEN IF toks[token].next = None THEN FALSE
         ELSE IF toks[toks[token].next].text = <<".">>
         THEN IF toks[toks[token].next].next = None THEN FALSE
              ELSE toks[toks[toks[token].next].next].text = T_u
         ELSE FALSE
    ELSE FALSE

\* token.next taken n times; None as soon as a link is None
RECURSIVE Hop(_, _, _)
Hop(toks, token, n) ==
    IF n = 0 \/ token = None THEN token ELSE Hop(toks, toks[token].next, n - 1)

\* [t for t in tokens if t.parent == opener], as arena indices in order
Children(toks, opener) ==
    {i \in FirstToken..Len(toks) : toks[i].parent = opener}

\* d[key] = value that adds an item even when the key is there
SetItem_appending(dict, key, value) == Append(dict, [key |-> key, value |-> value])

\* d[key] = value
RECURSIVE SetItem(_, _, _)
SetItem(dict, key, value) ==
    IF dict = <<>> THEN <<[key |-> key, value |-> value]>>
    ELSE IF Head(dict).key = key THEN <<[key |-> key, value |-> value]>> \o Tail(dict)
    ELSE <<Head(dict)>> \o SetItem(Tail(dict), key, value)

\* tuple(d.values())
Values(dict) == [i \in 1..Len(dict) |-> dict[i].value]

\* The locals of parse_webpack before line 31
NoWebpackLocals ==
    [func_body_start |-> None, func_body_end |-> None, value_token |-> None,
     big_dict_start |-> None, d |-> <<>>]

\* An exception leaving parse_webpack
WebpackRaise(exc) == [exc |-> exc, token |-> None, locals |-> NoWebpackLocals]

\* Lines 38-45 once the argument list is known to be closed
BodyLocated(toks, func_body_start) ==
    IF Children(toks, func_body_start) = {} THEN WebpackRaise("IndexError")
    ELSE [exc |-> "none",
          token |-> CHOOSE i \in Children(toks, func_body_start) :
                        \A j \in Children(toks, func_body_start) : i <= j,
          locals |-> [NoWebpackLocals EXCEPT
                         !.func_body_start = func_body_start,
                         !.func_body_end = toks[func_body_start].closed]]

\* Lines 32-37 from the `h` of `h.u`
FunctionLocated(toks, func_args_start) ==
    IF func_args_start = None THEN WebpackRaise("AttributeError")
    ELSE IF toks[func_args_start].closed = None THEN WebpackRaise("AssertionError")
    ELSE BodyLocated(toks, toks[toks[func_args_start].closed].next)

\* Lines 28-45: the dispatch function and the first token of its body
LocateDispatch(toks) ==
    LET hs == {i \in FirstToken..Len(toks) : _is_h_u_function(toks, i)}
    IN IF hs = {} THEN WebpackRaise("StopIteration")
       ELSE FunctionLocated(toks, Hop(toks, CHOOSE i \in hs : \A j \in hs : i <= j, 5))

\* The test of lines 50-56
IsTernaryClause(toks, token) ==
    /\ toks[token].type = "TK_WORD"
    /\ toks[toks[token].next].type = "TK_OPERATOR"
    /\ toks[toks[token].next].text = T_eqeqeq
    /\ toks[Hop(toks, token, 2)].type = "TK_WORD"
    /\ toks[Hop(toks, token, 2)].text = T_e

\* Lines 62-70: from value_token to the token before the next `:`, the value
\* so far growing by the key for the parameter and by the stripped text for
\* anything else but `+`
RECURSIVE ValueWalk(_, _, _, _)
ValueWalk(toks, key, value_token, value) ==
    IF toks[value_token].next = None
    THEN [exc |-> "AttributeError", value_token |-> value_token, value |-> value]
    ELSE IF toks[toks[value_token].next].type = "TK_OPERATOR"
            /\ toks[toks[value_token].next].text = <<":">>
    THEN [exc |-> "none", value_token |-> value_token, value |-> value]
    ELSE IF toks[toks[value_token].next].type = "TK_OPERATOR"
            /\ toks[toks[value_token].next].text = <<"+">>
    THEN ValueWalk(toks, key, toks[value_token].next, value)
    ELSE ValueWalk(toks, key, toks[value_token].next,
                   value \o (IF toks[toks[value_token].next].type = "TK_WORD"
                                /\ toks[toks[value_token].next].text = T_e
                             THEN key
                             ELSE StripQuotes(toks[toks[value_token].next].text)))

\* Lines 71-73 for a walked value w and the int k of the key
ClauseRecorded(toks, loc, w, k) ==
    IF w.exc # "none" THEN WebpackRaise(w.exc)
    ELSE IF k.exc # "none" THEN WebpackRaise(k.exc)
    ELSE [exc |-> "none",
          token |-> Hop(toks, w.value_token, 2),
          locals |-> [loc EXCEPT !.value_token = w.value_token,
                                 !.d = SetItem(@, k.v, PathDiv(P_next_root, w.value))]]

\* Lines 57-73 at a clause whose value begins at value_token
ClauseAt(toks, token, loc, value_token) ==
    IF value_token = None THEN WebpackRaise("AttributeError")
    ELSE IF toks[value_token].type = "TK_STRING"
    THEN ClauseRecorded(toks, loc,
                        ValueWalk(toks, toks[token].text, value_token,
                                  StripQuotes(toks[value_token].text)),
                        PyInt(toks[token].text))
    ELSE [exc |-> "none", token |-> toks[token].next,
          locals |-> [loc EXCEPT !.value_token = value_token]]

\* One iteration of the loop of line 46
TernaryStep(toks, token, loc) ==
    IF token = None THEN WebpackRaise("AttributeError")
    ELSE IF IsTernaryClause(toks, token) THEN ClauseAt(toks, token, loc, Hop(toks, token, 4))
    ELSE [exc |-> "none", token |-> toks[token].next, locals |-> loc]

\* Lines 74-76
AfterTernary(toks, loc) ==
    IF loc.value_token = None THEN WebpackRaise("AssertionError")
    ELSE IF toks[loc.value_token].next = None THEN WebpackRaise("AttributeError")
    ELSE [exc |-> "none", token |-> Hop(toks, loc.value_token, 2), locals |-> loc]

\* Lines 79-80 and 96: one iteration of the loop of line 78, up to the inner loop
TrailingStep(toks, token, loc) ==
    IF token = None THEN WebpackRaise("AttributeError")
    ELSE IF toks[token].type = "TK_START_EXPR" /\ toks[token].text = <<"(">>
    THEN [exc |-> "none", token |-> token,
          locals |-> [loc EXCEPT !.big_dict_start = toks[token].next]]
    ELSE [exc |-> "none", token |-> toks[token].next, locals |-> loc]

\* Lines 85-89 at the key token of an entry, k the int of the key
EntryRecorded(toks, token, loc, value_token, k) ==
    IF k.exc # "none" THEN WebpackRaise(k.exc)
    ELSE [exc |-> "none", token |-> toks[value_token].next,
          locals |-> [loc EXCEPT
                         !.value_token = value_token,
                         !.d = SetItem(@, k.v,
                                       PurePosixPath(P_chunks \o toks[token].text \o <<".">>
                                           \o StripQuotes(toks[value_token].text) \o S_js))]]

\* Lines 84-89 once token has moved on
EntryAt(toks, token, loc) ==
    IF token = None THEN WebpackRaise("AttributeError")
    ELSE IF toks[token].next = None THEN WebpackRaise("AttributeError")
    ELSE IF toks[toks[token].next].type = "TK_OPERATOR" /\ toks[toks[token].next].text = <<":">>
    THEN EntryRecorded(toks, token, loc, Hop(toks, token, 2), PyInt(toks[token].text))
    ELSE [exc |-> "none", token |-> token, locals |-> loc]

\* One iteration of the loop of line 82
DictStep(toks, token, loc) ==
    IF token = None THEN WebpackRaise("AttributeError")
    ELSE EntryAt(toks, toks[token].next, loc)

\* parse_webpack run to its end from a state of one of its loops: the dict it
\* ends with, or the exception
RECURSIVE RunDict(_, _, _)
RECURSIVE RunTrailing(_, _, _)
RECURSIVE RunTernary(_, _, _)

DictRan(toks, r) ==
    IF r.exc # "none" THEN [exc |-> r.exc, d |-> <<>>]
    ELSE RunDict(toks, r.token, r.locals)

RunDict(toks, token, loc) ==
    IF token = toks[loc.big_dict_start].closed THEN [exc |-> "none", d |-> loc.d]
    ELSE DictRan(toks, DictStep(toks, token, loc))

TrailingRan(toks, r) ==
    IF r.exc # "none" THEN [exc |-> r.exc, d |-> <<>>]
    ELSE IF r.locals.big_dict_start # None THEN RunDict(toks, r.token, r.locals)
    ELSE RunTrailing(toks, r.token, r.locals)

RunTrailing(toks, token, loc) ==
    IF token = toks[loc.func_body_start].closed THEN [exc |-> "none", d |-> loc.d]
    ELSE TrailingRan(toks, TrailingStep(toks, token, loc))

TernaryOver(toks, r) ==
    IF r.exc # "none" THEN [exc |-> r.exc, d |-> <<>>]
    ELSE RunTrailing(toks, r.token, r.locals)

TernaryRan(toks, r) ==
    IF r.exc # "none" THEN [exc |-> r.exc, d |-> <<>>]
    ELSE RunTernary(toks, r.token, r.locals)

RunTernary(toks, token, loc) ==
    IF token = loc.func_body_end THEN TernaryOver(toks, AfterTernary(toks, loc))
    ELSE TernaryRan(toks, TernaryStep(toks, token, loc))

\* Line 98 for what the loops ended with
ChunksOf(run) == [exc |-> run.exc, chunks |-> Values(run.d)]

\* Lines 42-98 from the located function
ParsedFrom(toks, r) ==
    IF r.exc # "none" THEN [exc |-> r.exc, chunks |-> <<>>]
    ELSE ChunksOf(RunTernary(toks, r.token, r.locals))

\* The resolver on an arena
WebpackOn(toks) == ParsedFrom(toks, LocateDispatch(toks))

\* parse_webpack(webpack_js): [exc, chunks]
parse_webpack(webpack_js) == WebpackOn(Tokenize(webpack_js))

----------------------------------------------------------------------------

(* Webpack runtime bundles: the dispatch function `h.u = function(e){return  *)
(* <ternary chain> <trailing expression>}` between other assignments.       *)

MaxClauses == 2

Question == Operator(<<"?">>)
Param == Word(T_e)

\* `<key> === e ? <value> :`
Tern(key, value) == <<Word(key), Operator(T_eqeqeq), Param, Question>> \o value \o <<Colon>>

\* The keys of the clauses of a chain, by position
ClauseKeys == <<<<"1", "1">>, <<"2", "2">>, <<"3", "3">>, <<"6", "6">>>>

\* Branch values: one literal; literals around the parameter; a literal then
\* the parameter, single-quoted; the parameter first; a variable; a literal
\* that begins with a slash
BranchValues ==
    { <<Str(<<"a", ".", "j", "s">>)>>,
      <<Str(<<"s", "/">>), Plus, Param, Plus, Str(<<".", "j", "s">>)>>,
      <<Str1(<<"c", "/">>), Plus, Param>>,
      <<Param, Plus, Str(<<".", "j", "s">>)>>,
      <<Word(<<"n">>)>>,
      <<Str(<<"/", "r", ".", "j", "s">>)>> }

\* The chain of clauses with the given values, keyed by position
RECURSIVE ChainOf(_, _)
ChainOf(values, i) ==
    IF i > Len(values) THEN <<>>
    ELSE Tern(ClauseKeys[i], values[i]) \o ChainOf(values, i + 1)

Chains == {ChainOf(values, 1) : values \in UNION {[1..n -> BranchValues] : n \in 0..MaxClauses}}

\* `<key>: "<value>"`
Entry(key, value) == <<Word(key), Colon, Str(value)>>

\* The dictionaries of the trailing expression: empty, one and two entries, a
\* trailing comma, a key of the chain again, a key that is not an integer
Dictionaries ==
    { <<>>,
      Entry(<<"4", "4">>, <<"x">>),
      Entry(<<"4", "4">>, <<"x">>) \o <<Comma>> \o Entry(<<"5", "5">>, <<"y">>),
      Entry(<<"4", "4">>, <<"x">>) \o <<Comma>>,
      Entry(<<"1", "1">>, <<"z">>),
      Entry(<<"k">>, <<"x">>) }

\* `"s/" + e + "." + ({<dictionary>})[e] + ".js"`
TrailingDict(entries) ==
    <<Str(<<"s", "/">>), Plus, Param, Plus, Str(<<".">>), Plus, LParen, LBrace>> \o entries
        \o <<RBrace, RParen, LBracket, Param, RBracket, Plus, Str(<<".", "j", "s">>)>>

\* The trailing expressions: with a parenthesised dictionary, with a literal
\* only, with a dictionary that is not parenthesised
Trailings ==
    {TrailingDict(entries) : entries \in Dictionaries}
    \cup { <<Str(<<"f", ".", "j", "s">>)>>,
           <<Str(<<"s", "/">>), Plus, Param, Plus, LBrace>> \o Entry(<<"4", "4">>, <<"x">>)
               \o <<RBrace, LBracket, Param, RBracket>> }

\* What stands before and after the dispatch function in the bundle
Before == <<Word(T_h), Dot, Word(<<"p">>), Equals, Str(<<"/">>), Comma>>
After == <<Comma, Word(T_h), Dot, Word(<<"k">>), Equals, Word(<<"0">>), Semicolon>>

\* `h.u = function(e) { return <body> }`
DispatchFunction(body) ==
    <<Word(T_h), Dot, Word(T_u), Equals, Reserved(T_function), LParen, Param, RParen,
      LBrace, Reserved(T_return)>> \o body \o <<RBrace>>

\* Bundles that are not of the shape above: no dispatch function; a clause
\* with no `:` after its value, with and without a `:` further on; a key
\* that is not an integer; an arrow function; a body that is never closed; an
\* empty body; the bundle ending at `h.u`
OtherBundles ==
    { Before \o After,
      Before \o DispatchFunction(<<Word(<<"1", "1">>), Operator(T_eqeqeq), Param, Question,
                                   Str(<<"a", ".", "j", "s">>)>>) \o After,
      DispatchFunction(<<Word(<<"1", "1">>), Operator(T_eqeqeq), Param, Question,
                         Str(<<"a", ".", "j", "s">>)>>)
          \o <<Comma>> \o Entry(<<"7">>, <<"x">>),
      Before \o DispatchFunction(Tern(<<"x">>, <<Str(<<"a", ".", "j", "s">>)>>) \o TrailingDict(Entry(<<"4", "4">>, <<"x">>)))
          \o After,
      <<Word(T_h), Dot, Word(T_u), Equals, Param, Arrow>> \o Tern(<<"1", "1">>, <<Str(<<"a", ".", "j", "s">>)>>)
          \o <<Str(<<"f", ".", "j", "s">>)>>,
      <<Word(T_h), Dot, Word(T_u), Equals, Reserved(T_function), LParen, Param, RParen,
        LBrace, Reserved(T_return)>> \o Tern(<<"1", "1">>, <<Str(<<"a", ".", "j", "s">>)>>) \o <<Str(<<"f", ".", "j", "s">>)>>,
      <<Word(T_h), Dot, Word(T_u), Equals, Reserved(T_function), LParen, Param, RParen,
        LBrace, RBrace>>,
      <<Word(T_h), Dot, Word(T_u)>> }

\* The bundles given to parse_webpack
WebpackSources ==
    {Before \o DispatchFunction(chain \o trailing) \o After :
        chain \in Chains, trailing \in Trailings}
    \cup OtherBundles

----------------------------------------------------------------------------
(* parse_webpack, one loop iteration per step.  pos is `token`.             *)

InitWebpack ==
    /\ js \in WebpackSources
    /\ tokens = Tokenize(js)
    /\ pos = None
    /\ things = EmptyThings
    /\ signal = "none"
    /\ raised = "none"
    /\ pc = "webpack"
    /\ locals = NoWebpackLocals
    /\ returned = <<>>
    /\ written = {}
    /\ NoDecode
    /\ NoGather

\* What a step of the resolver leaves: r is its outcome, to the location after it
Moved(r, after) ==
    /\ raised' = r.exc
    /\ pc' = IF r.exc # "none" THEN "webpack_raised" ELSE after
    /\ pos' = IF r.exc # "none" THEN pos ELSE r.token
    /\ locals' = IF r.exc # "none" THEN locals ELSE r.locals
    /\ UNCHANGED <<js, tokens, things, signal, returned, written, decodeVars, gatherVars>>

\* Lines 28-45
WebpackLocate ==
    /\ pc = "webpack"
    /\ Moved(LocateDispatch(tokens), "webpack_ternary")

\* One iteration of the loop of line 46
WebpackTernary ==
    /\ pc = "webpack_ternary"
    /\ pos # locals.func_body_end
    /\ Moved(TernaryStep(tokens, pos, locals), "webpack_ternary")

\* Lines 74-76, the loop of line 46 being over
WebpackAfterTernary ==
    /\ pc = "webpack_ternary"
    /\ pos = locals.func_body_end
    /\ Moved(AfterTernary(tokens, locals), "webpack_trailing")

\* Where an iteration of the loop of line 78 leads: into the loop of line 82
\* when it met `(`
AfterTrailing(r) ==
    IF r.exc = "none" /\ r.locals.big_dict_start # None THEN "webpack_dict"
    ELSE "webpack_trailing"

\* One iteration of the loop of line 78
WebpackTrailing ==
    /\ pc = "webpack_trailing"
    /\ pos # tokens[locals.func_body_start].closed
    /\ Moved(TrailingStep(tokens, pos, locals),
             AfterTrailing(TrailingStep(tokens, pos, locals)))

\* One iteration of the loop of line 82
WebpackDict ==
    /\ pc = "webpack_dict"
    /\ pos # tokens[locals.big_dict_start].closed
    /\ Moved(DictStep(tokens, pos, locals), "webpack_dict")

\* Line 98, after the break of line 95 or the end of the loop of line 78
WebpackReturn ==
    /\ \/ pc = "webpack_trailing" /\ pos = tokens[locals.func_body_start].closed
       \/ pc = "webpack_dict" /\ pos = tokens[locals.big_dict_start].closed
    /\ returned' = Values(locals.d)
    /\ pc' = "webpack_returned"
    /\ UNCHANGED <<js, tokens, pos, things, raised, signal, locals, written, decodeVars, gatherVars>>

NextWebpack ==
    \/ WebpackLocate
    \/ WebpackTernary
    \/ WebpackAfterTernary
    \/ WebpackTrailing
    \/ WebpackDict
    \/ WebpackReturn

SpecWebpack == InitWebpack /\ [][NextWebpack]_vars

----------------------------------------------------------------------------

(* build_manifest.py: the build-manifest resolver.  The tokenizer option    *)
(* unescape_strings changes the text of literals with escapes only; the    *)
(* manifests here have none.                                                *)

T_BUILD_MANIFEST == <<"_", "_", "B", "U", "I", "L", "D", "_", "M", "A", "N", "I", "F", "E", "S", "T">>

\* _convert_path with the root left out
_convert_path_without_root(p) == PurePosixPath(p)

\* _convert_path
_convert_path(p) == PathDiv(P_next_root, p)

\* The members of a set of arena indices in the order of the token stream
RECURSIVE InOrder(_)
InOrder(indices) ==
    IF indices = {} THEN <<>>
    ELSE <<CHOOSE i \in indices : \A j \in indices : i <= j>>
         \o InOrder(indices \ {CHOOSE i \in indices : \A j \in indices : i <= j})

\* [t for t in tokens if t.parent == opener and t.type == type]
ChildrenOfType(toks, opener, type) ==
    InOrder({i \in Children(toks, opener) : toks[i].type = type})

\* The texts of a list of tokens, stripped of the double quote
StrippedTexts(toks, list) == [i \in 1..Len(list) |-> Strip(toks[list[i]].text, {Quote})]

\* The texts of a list of tokens
Texts(toks, list) == [i \in 1..Len(list) |-> toks[list[i]].text]

\* list.index(x): 0 when x is not in the list (ValueError)
IndexOf(list, x) ==
    IF \E i \in 1..Len(list) : list[i] = x
    THEN CHOOSE i \in 1..Len(list) : list[i] = x /\ \A j \in 1..(i - 1) : list[j] # x
    ELSE 0

\* The locals of parse_build_manifest before line 22
NoManifestLocals == [variables |-> <<>>, args |-> <<>>, return_tokens |-> <<>>, d |-> <<>>]

\* An exception leaving parse_build_manifest
ManifestRaise(exc) == [exc |-> exc, locals |-> NoManifestLocals]

\* Lines 42-54 for the body and the two lists
ReturnLocated(toks, function_body_start, variables, args) ==
    IF \A i \in Children(toks, function_body_start) :
           ~(toks[i].type = "TK_RESERVED" /\ toks[i].text = T_return)
    THEN ManifestRaise("StopIteration")
    ELSE [exc |-> "none",
          locals |-> [variables |-> variables, args |-> args, d |-> <<>>,
                      return_tokens |->
                          ChildrenOfType(toks,
                              toks[CHOOSE i \in Children(toks, function_body_start) :
                                      /\ toks[i].type = "TK_RESERVED"
                                      /\ toks[i].text = T_return
                                      /\ \A j \in Children(toks, function_body_start) :
                                             (toks[j].type = "TK_RESERVED"
                                              /\ toks[j].text = T_return) => i <= j].next,
                              "TK_STRING")]]

\* Lines 30-40 for the opener of the formal parameter list
ListsLocated(toks, function_args_list_start) ==
    IF function_args_list_start = None THEN ManifestRaise("AttributeError")
    ELSE IF toks[function_args_list_start].closed = None THEN ManifestRaise("AttributeError")
    ELSE IF toks[toks[toks[function_args_list_start].closed].next].closed = None
    THEN ManifestRaise("AttributeError")
    ELSE ReturnLocated(toks, toks[toks[function_args_list_start].closed].next,
             Texts(toks, ChildrenOfType(toks, function_args_list_start, "TK_WORD")),
             StrippedTexts(toks,
                 ChildrenOfType(toks,
                     toks[toks[toks[toks[function_args_list_start].closed].next].closed].next,
                     "TK_STRING")))

\* Lines 25-29 from the __BUILD_MANIFEST token
ManifestFrom(toks, build_manifest_token) ==
    IF toks[toks[build_manifest_token].next].next = None THEN ManifestRaise("AssertionError")
    ELSE ListsLocated(toks, Hop(toks, build_manifest_token, 3))

\* Lines 21-54: the parameter names, the call-site strings and the string keys
\* of the returned object
LocateManifest(toks) ==
    LET ms == {i \in FirstToken..Len(toks) :
                  toks[i].type = "TK_WORD" /\ toks[i].text = T_BUILD_MANIFEST}
    IN IF ms = {} THEN ManifestRaise("StopIteration")
       ELSE ManifestFrom(toks, CHOOSE i \in ms : \A j \in ms : i <= j)

\* Line 61 for one element c: the text of a literal, else the call-site string
\* at the index of the name among the parameters
ElementPath(toks, c, loc) ==
    IF toks[c].type = "TK_STRING"
    THEN [exc |-> "none", path |-> _convert_path(Strip(toks[c].text, {Quote}))]
    ELSE IF IndexOf(loc.variables, toks[c].text) = 0 THEN [exc |-> "ValueError", path |-> <<>>]
    ELSE IF IndexOf(loc.variables, toks[c].text) > Len(loc.args)
    THEN [exc |-> "IndexError", path |-> <<>>]
    ELSE [exc |-> "none", path |-> _convert_path(loc.args[IndexOf(loc.variables, toks[c].text)])]

\* Lines 60-63: the list comprehension over the children
RECURSIVE ElementPaths(_, _, _)

PathsAfter(p, rest) ==
    IF p.exc # "none" THEN [exc |-> p.exc, paths |-> <<>>]
    ELSE IF rest.exc # "none" THEN [exc |-> rest.exc, paths |-> <<>>]
    ELSE [exc |-> "none", paths |-> <<p.path>> \o rest.paths]

ElementPaths(toks, children, loc) ==
    IF children = <<>> THEN [exc |-> "none", paths |-> <<>>]
    ELSE IF ElementPath(toks, Head(children), loc).exc # "none"
    THEN [exc |-> ElementPath(toks, Head(children), loc).exc, paths |-> <<>>]
    ELSE PathsAfter(ElementPath(toks, Head(children), loc),
                    ElementPaths(toks, Tail(children), loc))

\* Lines 56-63 with the paths of the entry
EntryPut(toks, token, loc, paths) ==
    IF paths.exc # "none" THEN ManifestRaise(paths.exc)
    ELSE [exc |-> "none",
          locals |-> [loc EXCEPT
                         !.return_tokens = Tail(@),
                         !.d = SetItem(@, PurePosixPath(Strip(toks[token].text, {Quote})),
                                       paths.paths)]]

\* One iteration of the loop of line 55, on the first of the remaining keys
ManifestEntry(toks, loc) ==
    EntryPut(toks, Head(loc.return_tokens), loc,
             ElementPaths(toks,
                 InOrder({i \in Children(toks, Hop(toks, Head(loc.return_tokens), 2)) :
                             toks[i].type # "TK_COMMA"}),
                 loc))

----------------------------------------------------------------------------

(* Build manifests: `self.__BUILD_MANIFEST = function(<params>){return       *)
(* {<routes>}}(<arguments>);`.                                              *)

\* `self.__BUILD_MANIFEST = function(<params>){return {<routes>}}(<arguments>);`
Manifest(params, routes, arguments) ==
    <<Word(<<"s", "e", "l", "f">>), Dot, Word(T_BUILD_MANIFEST), Equals, Reserved(T_function), LParen>>
        \o params
        \o <<RParen, LBrace, Reserved(T_return), LBrace>> \o routes
        \o <<RBrace, RBrace, LParen>> \o arguments \o <<RParen, Semicolon>>

\* `"<route>": [<elements>]`
Route(route, elements) == <<Str(route), Colon, LBracket>> \o CommaJoin(elements) \o <<RBracket>>

\* The elements of a route's list: the parameters by name and a literal
RouteElements(n) == {<<Word(ParamNames[i])>> : i \in 1..n} \cup {<<Str(<<"s", ".", "j", "s">>)>>}

\* The objects returned: one route; or that route, a second one and the list
\* of pages under a bare key
RouteObjects(n) ==
    {Route(<<"/", "x">>, elements) : elements \in ElementLists(RouteElements(n))}
    \cup {Route(<<"/", "x">>, elements) \o <<Comma>> \o Route(<<"/", "y">>, <<(<<Str(<<"t", ".", "c", "s", "s">>)>>)>>)
              \o <<Comma, Word(<<"s", "o", "r", "t", "e", "d", "P", "a", "g", "e", "s">>), Colon, LBracket, Str(<<"/", "x">>), RBracket>> :
          elements \in ElementLists(RouteElements(n))}

\* The arguments of the call: string literals, and a number
CallArguments(n) == {CommaJoin(list) : list \in [1..n -> {<<Str(<<"c", "1", ".", "j", "s">>)>>, <<Str(<<"c", "2", ".", "j", "s">>)>>, <<Word(<<"7">>)>>}]}

\* The manifest of two parameters a, b bound to c1.js, c2.js with the one
\* route /x, as an assignment and as a bare parenthesised function call
AssignedManifest ==
    Manifest(<<Word(<<"a">>), Comma, Word(<<"b">>)>>,
             Route(<<"/", "x">>, <<(<<Word(<<"a">>)>>), (<<Word(<<"b">>)>>)>>),
             <<Str(<<"c", "1", ".", "j", "s">>), Comma, Str(<<"c", "2", ".", "j", "s">>)>>)

BareManifest ==
    <<LParen, Reserved(T_function), LParen, Word(<<"a">>), Comma, Word(<<"b">>), RParen, LBrace,
      Reserved(T_return), LBrace>> \o Route(<<"/", "x">>, <<(<<Word(<<"a">>)>>), (<<Word(<<"b">>)>>)>>)
        \o <<RBrace, RBrace, RParen, LParen, Str(<<"c", "1", ".", "j", "s">>), Comma, Str(<<"c", "2", ".", "j", "s">>), RParen>>

\* Manifests of other shapes: the function in parentheses; `void 0` as first
\* argument; fewer arguments than parameters; no return; the file ending
\* after the name
OtherManifests ==
    { BareManifest,
      <<Word(<<"s", "e", "l", "f">>), Dot, Word(T_BUILD_MANIFEST), Equals>> \o BareManifest,
      Manifest(ParamList(2), Route(<<"/", "x">>, <<(<<Word(ParamNames[2])>>)>>),
               <<Reserved(<<"v", "o", "i", "d">>), Word(<<"0">>), Comma, Str(<<"c", "2", ".", "j", "s">>)>>),
      Manifest(ParamList(2), Route(<<"/", "x">>, <<(<<Word(ParamNames[2])>>)>>), <<Str(<<"c", "1", ".", "j", "s">>)>>),
      <<Word(<<"s", "e", "l", "f">>), Dot, Word(T_BUILD_MANIFEST), Equals, Reserved(T_function), LParen,
        RParen, LBrace, RBrace, LParen, RParen>>,
      <<Word(<<"s", "e", "l", "f">>), Dot, Word(T_BUILD_MANIFEST)>> }

\* The manifests given to parse_build_manifest
ManifestSources ==
    UNION {{Manifest(ParamList(n), routes, arguments) :
               routes \in RouteObjects(n), arguments \in CallArguments(n)} : n \in 0..MaxParams}
    \cup {AssignedManifest} \cup OtherManifests

----------------------------------------------------------------------------
(* parse_build_manifest, one route entry per step.  pos is the key token of *)
(* the entry last put.                                                      *)

InitManifest ==
    /\ js \in ManifestSources
    /\ tokens = Tokenize(js)
    /\ pos = None
    /\ things = EmptyThings
    /\ signal = "none"
    /\ raised = "none"
    /\ pc = "manifest"
    /\ locals = NoManifestLocals
    /\ returned = <<>>
    /\ written = {}
    /\ NoDecode
    /\ NoGather

\* What a step of the resolver leaves: r is its outcome
ManifestMoved(r) ==
    /\ raised' = r.exc
    /\ pc' = IF r.exc # "none" THEN "manifest_raised" ELSE "manifest_entries"
    /\ locals' = IF r.exc # "none" THEN locals ELSE r.locals
    /\ UNCHANGED <<js, tokens, things, signal, returned, written, decodeVars, gatherVars>>

\* Lines 21-54
ManifestLocate ==
    /\ pc = "manifest"
    /\ ManifestMoved(LocateManifest(tokens))
    /\ UNCHANGED pos

\* One iteration of the loop of line 55
ManifestPut ==
    /\ pc = "manifest_entries"
    /\ locals.return_tokens # <<>>
    /\ ManifestMoved(ManifestEntry(tokens, locals))
    /\ pos' = Head(locals.return_tokens)

\* Line 64
ManifestReturn ==
    /\ pc = "manifest_entries"
    /\ locals.return_tokens = <<>>
    /\ returned' = locals.d
    /\ pc' = "manifest_returned"
    /\ UNCHANGED <<js, tokens, pos, things, raised, signal, locals, written, decodeVars, gatherVars>>

NextManifest == ManifestLocate \/ ManifestPut \/ ManifestReturn

SpecManifest == InitManifest /\ [][NextManifest]_vars

----------------------------------------------------------------------------


----------------------------------------------------------------------------
(* app.py: the localization-map resolver.                                   *)

T_15288 == <<"1", "5", "2", "8", "8">>
T_var == <<"v", "a", "r">>
T_r == <<"r">>

\* The locals of parse_localizations_from_app before line 24, and
\* app_url_path of _extract_app (the empty text is None)
NoAppLocals ==
    [app_url_path |-> <<>>, function_15288 |-> None, function_body_start |-> None,
     r_start |-> None, dict_source |-> <<>>, r |-> <<>>, items |-> <<>>, d |-> <<>>]

AppRaise(exc) == [exc |-> exc, locals |-> NoAppLocals]

\* The condition of lines 30-33 on token t
IsFunction15288(toks, t) ==
    /\ toks[t].previous # None
    /\ toks[toks[t].previous].type = "TK_OPERATOR"
    /\ toks[toks[t].previous].text = <<":">>
    /\ toks[toks[toks[t].previous].previous].text = T_15288

\* The condition of lines 46-48 on token t of the function body
IsRStart(toks, t) ==
    /\ toks[toks[t].previous].type = "TK_EQUALS"
    /\ toks[toks[toks[t].previous].previous].text = T_r
    /\ toks[toks[toks[toks[t].previous].previous].previous].text = T_var

\* The least index of a set of arena indices: next() on a generator over them
FirstOf(indices) == CHOOSE i \in indices : \A j \in indices : i <= j

\* Lines 41-49, function_body_start being the token after the parameter list
RStartLocated(toks, loc, function_15288, function_body_start) ==
    IF {t \in Children(toks, function_body_start) : IsRStart(toks, t)} = {}
    THEN AppRaise("StopIteration")
    ELSE [exc |-> "none",
          locals |-> [loc EXCEPT
                         !.function_15288 = function_15288,
                         !.function_body_start = function_body_start,
                         !.r_start = FirstOf({t \in Children(toks, function_body_start) :
                                                  IsRStart(toks, t)})]]

\* Lines 36-49, function_15288 being the token line 27 found
BodyOf15288(toks, loc, function_15288) ==
    IF toks[function_15288].next = None THEN AppRaise("AssertionError")
    ELSE IF toks[toks[function_15288].next].closed = None THEN AppRaise("AssertionError")
    ELSE RStartLocated(toks, loc, function_15288,
                       toks[toks[toks[function_15288].next].closed].next)

\* Lines 24-49
LocateApp(toks, loc) ==
    IF {t \in FirstToken..Len(toks) : IsFunction15288(toks, t)} = {}
    THEN AppRaise("StopIteration")
    ELSE BodyOf15288(toks, loc,
                     FirstOf({t \in FirstToken..Len(toks) : IsFunction15288(toks, t)}))

\* The texts of the tokens from..to, one after the other
RECURSIVE TextsBetween(_, _, _)
TextsBetween(toks, from, to) ==
    IF from > to THEN <<>> ELSE toks[from].text \o TextsBetween(toks, from + 1, to)

\* Lines 50-55: with no closing token the loop runs off the last token, and
\* line 55 reads the text of None
DictSource(toks, loc) ==
    IF toks[loc.r_start].closed = None THEN AppRaise("AttributeError")
    ELSE [exc |-> "none",
          locals |-> [loc EXCEPT
                         !.dict_source = TextsBetween(toks, loc.r_start,
                                                      toks[loc.r_start].closed)]]

\* An int of list[int] in lax mode: a JSON integer, or a string of digits
IsIntLike(v) == v.k \in {"num", "str"} /\ v.s # <<>> /\ AllDigits(v.s)

\* A list[int]
IsIntList(v) == v.k = "arr" /\ \A i \in 1..Len(v.items) : IsIntLike(v.items[i])

\* The dict[str, list[int]] of a JSON object whose values are lists of ints,
\* as items [key, value] in order
AsDictOfLists(pairs) ==
    [i \in 1..Len(pairs) |->
        [key |-> pairs[i].s,
         value |-> [j \in 1..Len(pairs[i].items[1].items) |->
                       NumVal(pairs[i].items[1].items[j].s, 10)]]]

\* _dict_list_adapter.validate_json on what from_json made of the text
Validated(loc, parsed) ==
    IF parsed.exc # "none" THEN AppRaise("ValidationError")
    ELSE IF parsed.val.k # "obj" THEN AppRaise("ValidationError")
    ELSE IF \E i \in 1..Len(parsed.val.items) : ~IsIntList(parsed.val.items[i].items[1])
    THEN AppRaise("ValidationError")
    ELSE [exc |-> "none",
          locals |-> [loc EXCEPT !.r = AsDictOfLists(parsed.val.items),
                                 !.items = AsDictOfLists(parsed.val.items)]]

\* Line 57
ValidateJson(loc) == Validated(loc, from_json(loc.dict_source))

\* (v[1], v[0]) of line 61 with the two elements in the order of the list
Unswapped(v) == <<v[1], v[2]>>

\* (v[1], v[0]) of line 61: Python's v[1] is the second element
Swapped(v) == <<v[2], v[1]>>

\* One item of the comprehension of line 61, k and v the first of the items left
RekeyItem(loc, k, v) ==
    IF Len(v) < 2 THEN AppRaise("IndexError")
    ELSE [exc |-> "none",
          locals |-> [loc EXCEPT !.items = Tail(@),
                                 !.d = SetItem(@, Swapped(v), PurePosixPath(k))]]

\* The whole of lines 50-61 is run by the steps below; the comprehension from
\* the items left on
RECURSIVE RekeyAll(_)
RekeyNext(r) == IF r.exc # "none" THEN r ELSE RekeyAll(r.locals)
RekeyAll(loc) ==
    IF loc.items = <<>> THEN [exc |-> "none", locals |-> loc]
    ELSE RekeyNext(RekeyItem(loc, Head(loc.items).key, Head(loc.items).value))

----------------------------------------------------------------------------
(* extractor.py: _extract_app, and the names _dump_json_data gives to the   *)
(* files of inlined JSON.                                                   *)

S_json == <<".", "j", "s", "o", "n">>
N_localized_names == <<"L", "o", "c", "a", "l", "i", "z", "e", "d", " ", "d", "a", "t", "a", " ", "f", "i", "l", "e", " ", "n", "a", "m", "e", "s", ".", "j", "s", "o", "n">>

\* str(n) of a natural number
RECURSIVE DecimalText(_)
DecimalText(n) ==
    IF n < 10 THEN <<Digits[n + 1]>> ELSE DecimalText(n \div 10) \o <<Digits[(n % 10) + 1]>>

\* text.split(sep, 1)[0]
RECURSIVE UpTo(_, _)
UpTo(s, sep) ==
    IF s = <<>> \/ Head(s) = sep THEN <<>> ELSE <<Head(s)>> \o UpTo(Tail(s), sep)

\* PurePath.stem of a file name
stem(path) == SubSeq(path, 1, Len(path) - Len(suffix(path)))

\* Line 161
ModuleName(path) == UpTo(UpTo(stem(path), "."), "-")

\* Lines 163-167
RawName(module_name, function_id) ==
    IF module_name = DecimalText(function_id) THEN DecimalText(function_id) \o S_json
    ELSE module_name \o <<"-">> \o DecimalText(function_id) \o S_json

\* dict.get(key, default)
Get(dict, key, default) ==
    IF \E i \in 1..Len(dict) : dict[i].key = key
    THEN dict[CHOOSE i \in 1..Len(dict) : dict[i].key = key].value
    ELSE default

\* Lines 163-171: int(module_name) raises ValueError, which is suppressed,
\* unless the name is a number
OutName(localized_data, module_name, function_id) ==
    IF localized_data # <<>> /\ module_name # <<>> /\ AllDigits(module_name)
    THEN Get(localized_data, <<NumVal(module_name, 10), function_id>>,
             RawName(module_name, function_id))
    ELSE RawName(module_name, function_id)

\* Lines 160-173: the out_name of every entry of jsons
OutNames(jsons, localized_data) ==
    UNION {{OutName(localized_data, ModuleName(path), jsons[path][i].id) :
               i \in 1..Len(jsons[path])} : path \in DOMAIN jsons}

\* Lines 159-173: the write_json tasks, one for every entry of jsons, each
\* with the file and the ID it comes from and the name it writes to
WriteTasks(jsons, localized_data) ==
    UNION {{[file |-> path, function_id |-> jsons[path][i].id,
             out_name |-> OutName(localized_data, ModuleName(path), jsons[path][i].id)] :
               i \in 1..Len(jsons[path])} : path \in DOMAIN jsons}

\* find_interesting_things_in_all_files: the results after every future has
\* been awaited, or the exception of one of them
RECURSIVE GatherAll(_, _)
GatherNext(files, res, file, r) ==
    IF r.exc # "none" THEN [exc |-> r.exc, results |-> res]
    ELSE GatherAll(files \ {file}, combine(res, file.path, r.things))
GatherFile(files, res, file) ==
    GatherNext(files, res, file, _find_interesting_things_in_js(file.js))
GatherAll(files, res) ==
    IF files = {} THEN [exc |-> "none", results |-> res]
    ELSE GatherFile(files, res, CHOOSE file \in files : TRUE)

find_interesting_things_in_all_files(files) ==
    GatherAll({file \in files : suffix(file.path) = Ext_js}, NoResults)


----------------------------------------------------------------------------
(* App bundles: `{15288:function(e,t,n){var r={<entries>};}}`, and the      *)
(* files of a run.                                                          *)

MaxEntries == 2      \* how many entries the object literal of an app bundle holds

F_x == <<".", "/", "e", "n", "/", "x", ".", "j", "s", "o", "n">>
F_y == <<"e", "n", "/", "y", ".", "j", "s", "o", "n">>

\* `"<fragment>":[<elements>]`
AppEntry(fragment, elements) ==
    <<Str(fragment), Colon, LBracket>> \o CommaJoin(elements) \o <<RBracket>>

\* The entries of a literal: a fragment and a list of two of 7 and 42
AppEntries ==
    {AppEntry(fragment, <<(<<Word(a)>>), (<<Word(b)>>)>>) :
        fragment \in {F_x, F_y}, a \in {L_7, L_42}, b \in {L_7, L_42}}

\* `{<entries>}`
ObjectOf(entries) == <<LBrace>> \o CommaJoin(entries) \o <<RBrace>>

\* `var r=<value>;`
VarR(value) == <<Reserved(T_var), Spaced(Word(T_r)), Equals>> \o value \o <<Semicolon>>

\* `{<label>:function(e,t,n){<body>}}`
AppBundle(label, body) ==
    <<LBrace, Word(label), Colon, Reserved(T_function), LParen, Word(<<"e">>), Comma,
      Word(<<"t">>), Comma, Word(<<"n">>), RParen, LBrace>> \o body \o <<RBrace, RBrace>>

\* The bundles with function 15288 and `var r = {...}` first in its body
WellFormedApps ==
    {AppBundle(T_15288, VarR(ObjectOf(entries))) :
        entries \in UNION {[1..n -> AppEntries] : n \in 0..MaxEntries}}

\* The literal {"./en/x.json":[7,42]}
OneEntry == ObjectOf(<<AppEntry(F_x, <<(<<Word(L_7)>>), (<<Word(L_42)>>)>>)>>)

\* Bundles of other shapes: another label; an arrow function; another
\* variable; a number for r; r in an inner block; r second in its
\* declaration; a directive before r; an unquoted key; a value that is not a
\* list; a list of one, of three, of a string and a number; a list for r; no
\* token at all; two fragments that are one path
OtherApps ==
    { AppBundle(<<"1", "5", "2", "8", "9">>, VarR(OneEntry)),
      <<LBrace, Word(T_15288), Colon, LParen, Word(<<"e">>), RParen, Arrow, LBrace>>
          \o VarR(OneEntry) \o <<RBrace, RBrace>>,
      AppBundle(T_15288, <<Reserved(T_var), Spaced(Word(<<"s">>)), Equals>> \o OneEntry),
      AppBundle(T_15288, VarR(<<Word(<<"5">>)>>)),
      AppBundle(T_15288, <<Reserved(<<"i", "f">>), LParen, Word(<<"t">>), RParen, LBrace>>
                             \o VarR(OneEntry) \o <<RBrace>>),
      AppBundle(T_15288, <<Reserved(T_var), Spaced(Word(<<"a">>)), Equals, Word(<<"1">>), Comma,
                           Word(T_r), Equals>> \o OneEntry),
      AppBundle(T_15288, <<Str(<<"u", "s", "e", " ", "s", "t", "r", "i", "c", "t">>), Semicolon>> \o VarR(OneEntry)),
      AppBundle(T_15288, VarR(<<LBrace, Word(<<"a">>), Colon, LBracket, Word(L_7), Comma,
                                Word(L_42), RBracket, RBrace>>)),
      AppBundle(T_15288, VarR(<<LBrace, Str(F_x), Colon, Word(L_7), RBrace>>)),
      AppBundle(T_15288, VarR(ObjectOf(<<AppEntry(F_x, <<(<<Word(L_7)>>)>>)>>))),
      AppBundle(T_15288, VarR(ObjectOf(<<AppEntry(F_x, <<(<<Word(L_7)>>), (<<Word(L_42)>>),
                                                       (<<Word(<<"1">>)>>)>>)>>))),
      AppBundle(T_15288, VarR(ObjectOf(<<AppEntry(F_x, <<(<<Str(<<"a">>)>>), (<<Word(L_7)>>)>>)>>))),
      AppBundle(T_15288, VarR(<<LBracket, Word(L_7), Comma, Word(L_42), RBracket>>)),
      AppBundle(T_15288, VarR(ObjectOf(<<AppEntry(F_x, <<(<<Word(L_7)>>), (<<Word(L_42)>>)>>),
                                         AppEntry(Tail(Tail(F_x)), <<(<<Word(L_7)>>), (<<Word(L_7)>>)>>)>>))),
      <<>> }

\* The app bundles of a run; the empty path is a run with no app bundle
AppPaths == {<<>>, <<"_", "n", "e", "x", "t", "/", "s", "t", "a", "t", "i", "c", "/", "c", "h", "u", "n", "k", "s", "/", "p", "a", "g", "e", "s", "/", "_", "a", "p", "p", "-", "1", ".", "j", "s">>}

\* The chunks a run has downloaded: module 42 with the JSON of function 7,
\* module 7 with the JSON of function 7, a module of no number, two chunks of
\* module 42 with the JSON of function 7
Downloads ==
    { {File(<<"4", "2", "-", "a", "b", ".", "j", "s">>, InlinedJsonSource(L_7, JNum(<<"1">>))),
       File(<<"7", ".", "j", "s">>, InlinedJsonSource(L_7, JNum(<<"2", "0">>)))},
      {File(<<"p", "-", "1", ".", "j", "s">>, InlinedJsonSource(L_42, JNum(<<"1">>))),
       File(<<"c", ".", "c", "s", "s">>, <<Str(U_static)>>)},
      {File(<<"4", "2", "-", "a", "b", ".", "j", "s">>, InlinedJsonSource(L_7, JNum(<<"1">>))),
       File(<<"4", "2", ".", "c", "d", ".", "j", "s">>, InlinedJsonSource(L_7, JNum(<<"2", "0">>)))} }

----------------------------------------------------------------------------
(* extract_source up to the dump of the JSON data (lines 192-221), with     *)
(* parse_localizations_from_app in steps.  pos is the r_start token.       *)

InitApp ==
    /\ \E path \in AppPaths :
           /\ locals = [NoAppLocals EXCEPT !.app_url_path = path]
           /\ IF path = <<>> THEN js = <<>> ELSE js \in WellFormedApps \cup OtherApps
    /\ tokens = Tokenize(js)
    /\ source_files \in Downloads
    /\ pos = None
    /\ things = EmptyThings
    /\ signal = "none"
    /\ raised = "none"
    /\ pc = "extract_app"
    /\ returned = <<>>
    /\ written = {}
    /\ futures = {}
    /\ results = NoResults
    /\ NoDecode

\* What a step of the resolver leaves: r is its outcome
AppMoved(r, after) ==
    /\ raised' = r.exc
    /\ pc' = IF r.exc # "none" THEN "run_raised" ELSE after
    /\ locals' = IF r.exc # "none" THEN locals ELSE r.locals
    /\ pos' = IF r.exc # "none" THEN pos ELSE r.locals.r_start
    /\ UNCHANGED <<js, tokens, things, signal, returned, written, decodeVars, gatherVars>>

\* _extract_app lines 100-110 and 120-123: no app bundle, None is returned
\* with a warning
AppMissing ==
    /\ pc = "extract_app"
    /\ locals.app_url_path = <<>>
    /\ signal' = "app_missing"
    /\ returned' = <<>>
    /\ pc' = "extracted"
    /\ UNCHANGED <<js, tokens, pos, things, raised, locals, written, decodeVars, gatherVars>>

\* _extract_app lines 111-113 and parse_localizations_from_app lines 24-49
AppLocate ==
    /\ pc = "extract_app"
    /\ locals.app_url_path # <<>>
    /\ AppMoved(LocateApp(tokens, locals), "app_source")

\* Lines 50-55
AppSource ==
    /\ pc = "app_source"
    /\ AppMoved(DictSource(tokens, locals), "app_validate")

\* Line 57
AppValidate ==
    /\ pc = "app_validate"
    /\ AppMoved(ValidateJson(locals), "app_rekey")

\* One item of the comprehension of line 61
AppRekey ==
    /\ pc = "app_rekey"
    /\ locals.items # <<>>
    /\ AppMoved(RekeyItem(locals, Head(locals.items).key, Head(locals.items).value),
                "app_rekey")

\* Line 61 returns, and _extract_app lines 114-119
AppReturn ==
    /\ pc = "app_rekey"
    /\ locals.items = <<>>
    /\ returned' = locals.d
    /\ written' = written \cup {N_localized_names}
    /\ pc' = "extracted"
    /\ UNCHANGED <<js, tokens, pos, things, raised, signal, locals, decodeVars, gatherVars>>

\* What line 196 leaves: r is what find_interesting_things_in_all_files
\* returned or raised
Gathered(r) ==
    /\ raised' = r.exc
    /\ pc' = IF r.exc # "none" THEN "run_raised" ELSE "gathered"
    /\ results' = r.results

\* extract_source line 196
RunGather ==
    /\ pc = "extracted"
    /\ Gathered(find_interesting_things_in_all_files(source_files))
    /\ UNCHANGED <<source_files, futures, scanVars, decodeVars, resolveVars>>

\* extract_source line 221, _dump_json_data lines 159-173: the tasks
DumpJsonData ==
    /\ pc = "gathered"
    /\ futures' = WriteTasks(results.jsons, returned)
    /\ pc' = "dumping"
    /\ UNCHANGED <<source_files, results, raised, scanVars, decodeVars, resolveVars>>

\* _dump_json_data lines 175-176: one of the tasks writes its file
WriteJson ==
    /\ pc = "dumping"
    /\ \E task \in futures :
           /\ written' = written \cup {task.out_name}
           /\ futures' = futures \ {task}
    /\ UNCHANGED <<js, tokens, pos, things, raised, signal, pc, locals, returned, decodeVars,
                   source_files, results>>

\* Every task has been awaited
DumpReturn ==
    /\ pc = "dumping"
    /\ futures = {}
    /\ pc' = "dumped"
    /\ UNCHANGED <<raised, scanVars, decodeVars, gatherVars, resolveVars>>

NextApp ==
    AppMissing \/ AppLocate \/ AppSource \/ AppValidate \/ AppRekey \/ AppReturn
        \/ RunGather \/ DumpJsonData \/ WriteJson \/ DumpReturn

SpecApp == InitApp /\ [][NextApp]_vars

----------------------------------------------------------------------------
(* tokenize_js, one lexeme per step.  locals is the open token, those open  *)
(* around it and the links so far; pos is the number of lexemes linked.     *)

MaxBrackets == 4     \* how many lexemes a stream of delimiters holds

\* The lexemes of the streams: the delimiters of two kinds and a word
BracketLexemes == {LParen, RParen, LBrace, RBrace, Word(<<"w">>)}

\* Streams with square brackets: nested in order, crossed, closed twice
SquareStreams ==
    { <<LBrace, LBracket, LParen, Word(<<"w">>), RParen, RBracket, RBrace>>,
      <<LParen, LBracket, RParen, RBracket>>,
      <<LBracket, Word(<<"w">>), RBracket, RBracket>>,
      <<LBracket, LBracket, RBracket, Word(<<"w">>), LBrace, RBrace, RBracket, LParen, RParen>> }

\* The streams given to tokenize_js
BracketStreams ==
    UNION {[1..n -> BracketLexemes] : n \in 0..MaxBrackets} \cup SquareStreams

\* The tokenizer before the first lexeme: no token is open
NoLinks == [open |-> None, stack |-> <<>>, acc |-> <<>>]

InitTokenize ==
    /\ js \in BracketStreams
    /\ tokens = <<>>
    /\ pos = 0
    /\ locals = NoLinks
    /\ things = EmptyThings
    /\ signal = "none"
    /\ raised = "none"
    /\ pc = "tokenize"
    /\ returned = <<>>
    /\ written = {}
    /\ NoDecode
    /\ NoGather

\* One iteration of the loop of Tokenizer.tokenize, on the next lexeme (EOF
\* the last)
TokenizeStep ==
    /\ pc = "tokenize"
    /\ pos <= Len(js)
    /\ locals' = LinkStep(Append(js, EofLexeme), pos + 1, locals)
    /\ pos' = pos + 1
    /\ UNCHANGED <<js, tokens, things, raised, signal, pc, returned, written, decodeVars,
                   gatherVars>>

\* Line 17: the tokens are returned
TokenizeReturn ==
    /\ pc = "tokenize"
    /\ pos = Len(js) + 1
    /\ tokens' = Arena(Append(js, EofLexeme), locals.acc)
    /\ pc' = "tokenized"
    /\ UNCHANGED <<js, pos, things, raised, signal, locals, returned, written, decodeVars,
                   gatherVars>>

NextTokenize == TokenizeStep \/ TokenizeReturn

SpecTokenize == InitTokenize /\ [][NextTokenize]_vars

(* download_source.py and the static files of extract_source: the download    *)
(* tasks of one loop over as_completed, and the semaphore they share.         *)
(* source_files holds the URLs to download, futures the state of the task of  *)
(* each, results the tasks that are done in the order they finished (the      *)
(* order as_completed yields them in), pos the number of results the loop has *)
(* awaited, locals the semaphore and the locals of the caller, written the    *)
(* paths written to disk.                                                     *)

MaxUrls == 3
MaxConnections == 2

ChunkUrl(i) == DecimalText(i) \o <<".", "j", "s">>
ChunkUrls == {ChunkUrl(i) : i \in 1..MaxUrls}

\* website_source_dir / chunk_url
OutPath(url) == <<"website_source_dir">> \o url

\* What a request ends with: the text of the response, the error
\* raise_for_status raises for an HTTP error status, or the error session.get
\* raises when the connection fails
Outcomes == {"ok", "ClientResponseError", "ClientConnectionError"}

InFlight == {url \in source_files : futures[url] = "in_flight"}

\* asyncio.Semaphore(value); the caller's loop starts with every task created
Semaphore(caller, value) ==
    [caller |-> caller, max_connections |-> value, value |-> value, waiters |-> <<>>,
     acquired |-> {}, out_paths |-> {}]

InitDownload ==
    /\ source_files \in SUBSET ChunkUrls \ {{}}
    /\ futures = [url \in source_files |-> "pending"]
    /\ \/ \E max_connections \in 1..MaxConnections :
              locals = Semaphore("download_source", max_connections)
       \/ locals = Semaphore("extract_source", 1)
    /\ results = <<>>
    /\ pos = 0
    /\ written = {}
    /\ returned = {}
    /\ raised = "none"
    /\ signal = "none"
    /\ pc = "downloading"
    /\ js = <<>>
    /\ tokens = <<>>
    /\ things = EmptyThings
    /\ NoDecode

\* Semaphore.acquire of the task of url: taken at once when the counter is
\* positive and nobody waits, else the task joins the waiters
acquire(url) ==
    /\ pc \in {"downloading", "download_raised"}
    /\ futures[url] = "pending"
    /\ IF locals.value > 0 /\ locals.waiters = <<>>
       THEN /\ futures' = [futures EXCEPT ![url] = "in_flight"]
            /\ locals' = [locals EXCEPT !.value = @ - 1, !.acquired = @ \cup {url}]
       ELSE /\ futures' = [futures EXCEPT ![url] = "waiting"]
            /\ locals' = [locals EXCEPT !.waiters = Append(@, url)]
    /\ UNCHANGED <<source_files, results, pos, written, returned, raised, signal, pc, js,
                   tokens, things, decodeVars>>

\* Semaphore.release, leaving the block of `async with`: the first waiter is
\* woken and holds the semaphore, else the counter goes up
release(sem) ==
    IF sem.waiters # <<>>
    THEN [sem EXCEPT !.waiters = Tail(@), !.acquired = @ \cup {Head(sem.waiters)}]
    ELSE [sem EXCEPT !.value = @ + 1]

Woken(sem, tasks) ==
    IF sem.waiters # <<>> THEN [tasks EXCEPT ![Head(sem.waiters)] = "in_flight"] ELSE tasks

\* The request of the task of url ends with outcome; the task leaves the
\* block of `async with` and is done
Respond(url, outcome) ==
    /\ pc \in {"downloading", "download_raised"}
    /\ futures[url] = "in_flight"
    /\ futures' = [Woken(locals, futures) EXCEPT ![url] = outcome]
    /\ locals' = release(locals)
    /\ results' = Append(results, url)
    /\ written' = IF outcome = "ok" /\ locals.caller = "extract_source"
                  THEN written \cup {OutPath(url)}
                  ELSE written
    /\ UNCHANGED <<source_files, pos, returned, raised, signal, pc, js, tokens, things,
                   decodeVars>>

\* _download_with_url and get_binary_file enter the block of `async with`
AcquireSemaphore == \E url \in source_files : acquire(url)

\* The response arrives and is read
RequestSucceeds == \E url \in source_files : Respond(url, "ok")

\* The response has an HTTP error status: response.raise_for_status() raises
RequestRejected == \E url \in source_files : Respond(url, "ClientResponseError")

\* The connection fails: session.get raises
RequestFails == \E url \in source_files : Respond(url, "ClientConnectionError")

\* The loop awaits the next task that is done
Awaits(url) ==
    /\ pc = "downloading"
    /\ results # <<>>
    /\ url = Head(results)
    /\ results' = Tail(results)
    /\ pos' = pos + 1

\* download_source: the task returned a chunk, which is written
WriteChunk ==
    /\ locals.caller = "download_source"
    /\ \E url \in source_files :
           /\ Awaits(url)
           /\ futures[url] = "ok"
           /\ written' = written \cup {OutPath(url)}
           /\ locals' = [locals EXCEPT !.out_paths = @ \cup {OutPath(url)}]
    /\ signal' = "none"
    /\ UNCHANGED <<source_files, futures, returned, raised, pc, js, tokens, things, decodeVars>>

\* download_source: `except ClientResponseError`, logged, and the loop goes on
SkipChunk ==
    /\ locals.caller = "download_source"
    /\ \E url \in source_files :
           /\ Awaits(url)
           /\ futures[url] = "ClientResponseError"
    /\ signal' = "ClientResponseError"
    /\ UNCHANGED <<source_files, futures, locals, written, returned, raised, pc, js, tokens,
                   things, decodeVars>>

\* extract_source: `await result` of a static file that was downloaded
AwaitStatic ==
    /\ locals.caller = "extract_source"
    /\ \E url \in source_files :
           /\ Awaits(url)
           /\ futures[url] = "ok"
    /\ UNCHANGED <<source_files, futures, locals, written, returned, raised, signal, pc, js,
                   tokens, things, decodeVars>>

\* The exception of the awaited task is one no `except` of the caller names
Uncaught(caller, outcome) ==
    IF caller = "download_source"
    THEN outcome \notin {"ok", "ClientResponseError"}
    ELSE outcome # "ok"

\* `await result` raises and the exception leaves the caller
AwaitRaises ==
    /\ pc = "downloading"
    /\ results # <<>>
    /\ Uncaught(locals.caller, futures[Head(results)])
    /\ raised' = futures[Head(results)]
    /\ pc' = "download_raised"
    /\ UNCHANGED <<source_files, futures, results, pos, locals, written, returned, signal, js,
                   tokens, things, decodeVars>>

\* Every task was awaited: `return files, out_paths`
DownloadReturn ==
    /\ pc = "downloading"
    /\ pos = Cardinality(source_files)
    /\ returned' = locals.out_paths
    /\ pc' = "downloaded"
    /\ UNCHANGED <<source_files, futures, results, pos, locals, written, raised, signal, js,
                   tokens, things, decodeVars>>

IsDone(state) == state \in Outcomes \cup {"cancelled"}

\* asyncio.run, after the exception left the main coroutine: every task that
\* is not done is cancelled, the waiters in Semaphore.acquire too
CancelTasks ==
    /\ pc = "download_raised"
    /\ futures' = [url \in source_files |->
                       IF IsDone(futures[url]) THEN futures[url] ELSE "cancelled"]
    /\ locals' = [locals EXCEPT !.value = @ + Cardinality(InFlight), !.waiters = <<>>]
    /\ pc' = "cancelled"
    /\ UNCHANGED <<source_files, results, pos, written, returned, raised, signal, js, tokens,
                   things, decodeVars>>

\* A step of the task of url
TaskStep(url) == acquire(url) \/ \E outcome \in Outcomes : Respond(url, outcome)

NextDownload ==
    \/ AcquireSemaphore \/ RequestSucceeds \/ RequestRejected \/ RequestFails
    \/ WriteChunk \/ SkipChunk \/ AwaitStatic \/ AwaitRaises \/ DownloadReturn
    \/ CancelTasks

SpecDownload == InitDownload /\ [][NextDownload]_vars

\* The event loop runs every task that can run, and every request ends
SpecDownloadFair ==
    /\ SpecDownload
    /\ \A url \in ChunkUrls : WF_vars(url \in source_files /\ TaskStep(url))
    /\ WF_vars(WriteChunk \/ SkipChunk \/ AwaitStatic \/ AwaitRaises \/ DownloadReturn)
    /\ WF_vars(CancelTasks)

(* What the claims below read off a token arena.                            *)

\* Token i is the JSON of a call `JSON.parse( ... )` whose argument list is
\* closed
IsJsonParseCall(toks, i) ==
    /\ toks[i].type = "TK_WORD" /\ toks[i].text = T_JSON
    /\ i + 3 <= Len(toks)
    /\ toks[i + 1].type = "TK_DOT"
    /\ toks[i + 2].text = T_parse
    /\ toks[i + 3].text = <<"(">>
    /\ toks[i + 3].closed # None

\* The argument list of that call is one string literal and nothing else
SingleStringArg(toks, i) ==
    toks[i + 4].type = "TK_STRING" /\ toks[i + 3].closed = i + 5

\* The scan loop is about to run its body on a token of the stream
AtToken == pc = "scan" /\ pos <= Len(tokens)

\* C2: at a JSON.parse call site whose argument is not a single string
\* literal (a variable, a concatenation, several arguments, no argument) the
\* iteration catches the not-parseable condition, raises nothing, adds no
\* entry to jsons and leaves every other collection of the file as it was, so
\* the rest of the scan runs as if the site had not been looked at.
C2_NotParseableSkipsOnlyTheSite ==
    [][(AtToken /\ IsJsonParseCall(tokens, pos) /\ ~SingleStringArg(tokens, pos))
          => /\ signal' = "NotParseableError"
             /\ raised' = "none"
             /\ things' = things
             /\ pos' = pos + 1]_vars

\* C2's case: a not-parseable site was just skipped in a file that has other
\* findings before it
C2_Witness ==
    /\ signal = "NotParseableError"
    /\ pc = "scan"
    /\ things.jsons = <<>>
    /\ things.static_urls # {}



\* Block t is the body of `<integer>: function(...) {`
IsIntegerLabelledBody(toks, t) ==
    /\ toks[t].text = <<"{">>
    /\ toks[t - 1].text = <<")">>
    /\ toks[t - 1].opened > 3
    /\ toks[toks[t - 1].opened - 1].text = T_function
    /\ toks[toks[t - 1].opened - 2].text = <<":">>
    /\ toks[toks[t - 1].opened - 3].type = "TK_WORD"
    /\ AllDigits(toks[toks[t - 1].opened - 3].text)

\* The integer that labels such a block
LabelOf(toks, t) == NumVal(toks[toks[t - 1].opened - 3].text, 10)

\* The nearest block of that shape from block t outwards, None if there is none
RECURSIVE NearestLabelledBody(_, _)
NearestLabelledBody(toks, t) ==
    IF t = None THEN None
    ELSE IF IsIntegerLabelledBody(toks, t) THEN t
    ELSE NearestLabelledBody(toks, toks[t].parent)

\* The argument of the call at token i is the literal "1"
ArgumentIsOne(toks, i) == toks[i + 4].text = <<Quote, "1", Quote>>

\* What C3 promises for a site whose nearest labelled block is `body`
OwnerPromised(body) ==
    IF body # None
    THEN /\ raised' = "none"
         /\ signal' = "none"
         /\ things'.jsons = JsonSet(things.jsons, LabelOf(tokens, body), JNum(<<"1">>))
    ELSE /\ raised' = "none"
         /\ signal' = "UnexpectedParseError"
         /\ things' = things
         /\ pos' = pos + 1

\* C3: at every JSON.parse("<string literal>") call site the owner ID is the
\* integer label of the nearest `<integer>: function(...) {` block found by
\* walking parent links from the JSON token, at any depth; where no enclosing
\* block has that shape (top level, if/try/named-function/arrow bodies, a
\* label that is not an integer) the unexpected-structure condition is raised
\* and skips only that site.
C3_OwnerByWalkingParents ==
    [][(AtToken /\ IsJsonParseCall(tokens, pos) /\ SingleStringArg(tokens, pos)
           /\ ArgumentIsOne(tokens, pos))
          => OwnerPromised(NearestLabelledBody(tokens, tokens[pos].parent))]_vars

\* The scan of the file is over, by a return or by an exception
Over == pc \in {"returned", "raised"}

\* C4: for every integer N and every JSON text J, the source
\* `N: function(e,t,n){var r=JSON.parse("<J escaped as a JavaScript string
\* literal>")}` yields exactly one jsons entry, with owner ID N and the JSON
\* value of J, whatever the kind of J, a JSON string included.
C4_InlinedJsonRoundTrip ==
    Over =>
        \A id \in {L_42, L_7}, v \in JsonValues :
            js = InlinedJsonSource(id, v)
                => /\ pc = "returned"
                   /\ things.jsons = <<[id |-> NumVal(id, 10), val |-> v]>>

\* The collections among the four URL ones that the iteration on token i adds to
Attributions(toks, i) ==
    LET th == ScanToken(toks, EmptyThings, i).things
    IN {c \in {"api_functions", "other_api_urls", "static_urls", "other_urls"} :
           \/ c = "api_functions" /\ th.api_functions # <<>>
           \/ c = "other_api_urls" /\ th.other_api_urls # {}
           \/ c = "static_urls" /\ th.static_urls # {}
           \/ c = "other_urls" /\ th.other_urls # {}}

\* C5: every string-literal token is attributed to at most one finding: the
\* iteration on it adds to at most one of api_functions, other_api_urls,
\* static_urls and other_urls, so a literal that produced an APIFunction is not
\* also in other_api_urls.
C5_OneFindingPerLiteral ==
    (AtToken /\ tokens[pos].type = "TK_STRING")
        => Cardinality(Attributions(tokens, pos)) <= 1

\* C5's case: the scan is at a literal that produces an APIFunction
C5_Witness ==
    /\ AtToken
    /\ tokens[pos].type = "TK_STRING"
    /\ Attributions(tokens, pos) = {"api_functions"}

\* A text without the quote characters at its two ends
RECURSIVE WithoutQuotes(_)
WithoutQuotes(t) ==
    IF t # <<>> /\ Head(t) \in {Quote, Apos} THEN WithoutQuotes(Tail(t))
    ELSE IF t # <<>> /\ t[Len(t)] \in {Quote, Apos}
    THEN WithoutQuotes(SubSeq(t, 1, Len(t) - 1))
    ELSE t

\* Literal i is the sole argument of a `<receiver>.<method>(...)` call that is
\* directly inside a try block that is directly inside a named function
IsDescriptorShape(toks, i) ==
    /\ toks[i].parent = i - 1
    /\ i > 4
    /\ toks[i - 1].text = <<"(">>
    /\ toks[i - 1].closed = i + 1
    /\ toks[i - 2].type = "TK_WORD"
    /\ toks[i - 3].type = "TK_DOT"
    /\ toks[i - 4].type = "TK_WORD"
    /\ toks[i - 1].parent > 2
    /\ toks[toks[i - 1].parent].text = <<"{">>
    /\ toks[toks[i - 1].parent - 1].text = T_try
    /\ toks[toks[i - 1].parent].parent > 2
    /\ toks[toks[toks[i - 1].parent].parent].text = <<"{">>
    /\ toks[toks[toks[i - 1].parent].parent - 1].text = <<")">>
    /\ toks[toks[toks[i - 1].parent].parent - 1].opened > 3
    /\ toks[toks[toks[toks[i - 1].parent].parent - 1].opened - 1].type = "TK_WORD"
    /\ toks[toks[toks[toks[i - 1].parent].parent - 1].opened - 2].text = T_function

\* C6: for every literal whose text begins with /api/ and whose surroundings
\* are not the full descriptor shape (no enclosing delimiter, a top-level
\* call, one of several arguments, an anonymous or arrow function) the
\* recognizer adds the text to other_api_urls, produces no APIFunction and
\* raises no error.
C6_BareApiUrlOutsideDescriptor ==
    [][(AtToken /\ tokens[pos].type = "TK_STRING"
           /\ StartsWith(WithoutQuotes(tokens[pos].text), P_api)
           /\ ~IsDescriptorShape(tokens, pos))
          => /\ raised' = "none"
             /\ WithoutQuotes(tokens[pos].text) \in things'.other_api_urls
             /\ things'.api_functions = things.api_functions]_vars


IsLiteralOpen(toks, i) ==
    /\ i <= Len(toks)
    /\ toks[i].text \in {<<"[">>, <<"{">>}
    /\ toks[i].closed # None

\* The tokens strictly between an opening token and its closing one
Inside(toks, open) == (open + 1)..(toks[open].closed - 1)

\* Token i is a comma separating two elements of the literal opened at `open`
IsSeparator(toks, open, i) == toks[i].type = "TK_COMMA" /\ toks[i].parent = open

\* Token i is the first, the last token of an element of that literal
BeginsElement(toks, open, i) == i - 1 = open \/ IsSeparator(toks, open, i - 1)
EndsElement(toks, open, i) == i + 1 = toks[open].closed \/ IsSeparator(toks, open, i + 1)

\* Every element of the array is a single string literal
AllStringElements(toks, open) ==
    \A i \in Inside(toks, open) :
        \/ IsSeparator(toks, open, i)
        \/ /\ toks[i].type = "TK_STRING"
           /\ BeginsElement(toks, open, i)
           /\ EndsElement(toks, open, i)

\* Tokens k, k+1, k+2 are an entry `bareword: "string"` of the object
IsStringEntry(toks, open, k) ==
    /\ k > open
    /\ k + 2 < toks[open].closed
    /\ BeginsElement(toks, open, k)
    /\ toks[k].type \in {"TK_WORD", "TK_RESERVED"}
    /\ toks[k + 1].text = <<":">>
    /\ toks[k + 2].type = "TK_STRING"
    /\ EndsElement(toks, open, k + 2)

\* Every entry of the object is `bareword: "string"`
AllStringEntries(toks, open) ==
    \A i \in Inside(toks, open) :
        \/ IsSeparator(toks, open, i)
        \/ \E k \in {i - 2, i - 1, i} : IsStringEntry(toks, open, k)

\* The string literals among the elements, the keys among the entries
StringsInside(toks, open) == {i \in Inside(toks, open) : toks[i].type = "TK_STRING"}
KeysInside(toks, open) ==
    {toks[k].text : k \in {i \in Inside(toks, open) : IsStringEntry(toks, open, i)}}

\* What C8 allows maybe_parse_literal to return for the literal opened at `open`
WholeOrNothing(toks, open, lit) ==
    /\ lit.kind = "array" =>
          /\ AllStringElements(toks, open)
          /\ Len(lit.value) = Cardinality(StringsInside(toks, open))
    /\ lit.kind = "object" =>
          /\ AllStringEntries(toks, open)
          /\ {lit.value[k][1] : k \in 1..Len(lit.value)} = KeysInside(toks, open)

\* C8: for an assignment `<name> = [ ... ]` or `<name> = { ... }`,
\* maybe_parse_literal emits an ArrayLiteral/ObjectLiteral only if every
\* element, or every value of a `bareword: value` pair, is a single string
\* literal; with any other element anywhere in the literal (a number, a nested
\* literal, a concatenation, a string key, a shorthand or spread entry) it
\* returns nothing, never a literal holding the strings seen so far.
C8_NoPartialLiteral ==
    (AtToken /\ tokens[pos].type = "TK_EQUALS" /\ IsLiteralOpen(tokens, pos + 1))
        => WholeOrNothing(tokens, pos + 1, maybe_parse_literal(tokens, pos))

\* C8's case: the scan is past an array whose first element is a string and
\* whose second is a number, and has emitted nothing for it
C8_Witness ==
    /\ pc = "returned"
    /\ js = ArrayAssignment(<<StringElement, <<Word(<<"1">>)>> >>)
    /\ things.arrays = <<>>
    /\ things.objects = <<>>

\* C9: at every position the owner ID that get_function_id computes equals the
\* one parse_json_literal computes for a JSON.parse there, whenever the latter
\* succeeds, also inside inner blocks and under a label written like 14e3; and
\* for a top-level assignment get_function_id returns none.
C9_SameOwnerAsJsonRecognizer ==
    /\ (AtToken /\ IsJsonParseCall(tokens, pos) /\ SingleStringArg(tokens, pos)
           /\ parse_json_literal(tokens, pos, pos + 2).exc = "none")
          => get_function_id(tokens, pos)
                 = SomeId(parse_json_literal(tokens, pos, pos + 2).id)
    /\ (AtToken /\ tokens[pos].type = "TK_EQUALS" /\ tokens[pos].parent = None)
          => get_function_id(tokens, pos) = NoId


\* The scan of the file raises nothing
ScansCleanly(file) == _find_interesting_things_in_js(file.js).exc = "none"

\* results holds what the scan of the file found
IsCombined(file) ==
    results = combine(results, file.path, _find_interesting_things_in_js(file.js).things)

\* C1: in find_interesting_things_in_all_files, an error raised while
\* extracting one file does not stop the run: the function returns, and every
\* other file's InterestingThings is combined into the aggregate.
C1_ErrorInOneFileDoesNotStopTheRun ==
    (pc \in {"gather_returned", "gather_raised"})
        => /\ pc = "gather_returned"
           /\ \A file \in source_files :
                  (suffix(file.path) = Ext_js /\ ScansCleanly(file)) => IsCombined(file)

\* The escapes the pattern of line 42 matches in a text, left to right
RECURSIVE EscapesOf(_)
EscapesOf(s) ==
    IF s = <<>> THEN <<>>
    ELSE IF MatchesHexX(s) THEN <<SubSeq(s, 1, 4)>> \o EscapesOf(Slice(s, 5, Len(s)))
    ELSE IF MatchesHexU(s) THEN <<SubSeq(s, 1, 6)>> \o EscapesOf(Slice(s, 7, Len(s)))
    ELSE EscapesOf(Tail(s))

EscapeCode(e) == NumVal(Slice(e, 3, Len(e)), 16)
IsSurrogateEscape(e) == IsSurrogate(EscapeCode(e))
IsOtherEscape(e) == ~IsSurrogate(EscapeCode(e))

\* The surrogate escapes of a text; the characters of its other escapes
SurrogateEscapes(s) == SelectSeq(EscapesOf(s), IsSurrogateEscape)
OtherCharacters(s) ==
    LET es == SelectSeq(EscapesOf(s), IsOtherEscape)
    IN [k \in 1..Len(es) |-> <<Chr(EscapeCode(es[k]))>>]
IsNoBackslash(c) == c # <<Backslash>>

\* The parts are found in the text one after the other, none overlapping
RECURSIVE HoldsInOrder(_, _)
HoldsInOrder(h, parts) ==
    IF parts = <<>> THEN TRUE
    ELSE
    LET n == Len(Head(parts))
        hits == {p \in 1..(Len(h) - n + 1) : SubSeq(h, p, p + n - 1) = Head(parts)}
    IN /\ hits # {}
       /\ HoldsInOrder(
              Slice(h, (CHOOSE p \in hits : \A q \in hits : p <= q) + n, Len(h)),
              Tail(parts))

\* The code points the surrogate escapes of a text name, as raw characters
RawSurrogates(s) ==
    {Chr(EscapeCode(SurrogateEscapes(s)[k])) : k \in 1..Len(SurrogateEscapes(s))}

Categories ==
    {"api_functions", "other_api_urls", "static_urls", "jsons", "other_urls",
     "arrays", "objects"}

\* A category's collection is empty
IsEmptyCollection(cat, coll) == coll = EmptyThings[cat]

\* The aggregate holds the collection under the key `path` in the category
Holds(agg, cat, path, coll) ==
    /\ cat \in DOMAIN agg
    /\ path \in DOMAIN agg[cat]
    /\ agg[cat][path] = coll

\* The .js files of the directory whose result has been awaited
Awaitedfiles == {file \in source_files : suffix(file.path) = Ext_js /\ file \notin futures}

\* C18: after combine(path, things), for every recognizer category of
\* InterestingThings (api_functions, other_api_urls, static_urls, jsons,
\* other_urls, arrays, objects) whose collection in things is not empty, the
\* aggregate holds that collection under the key path: no category of
\* findings is lost in aggregation.
C18_NoCategoryLostInAggregation ==
    (pc \in {"gather", "gather_returned"})
        => \A file \in Awaitedfiles, cat \in Categories :
               ~IsEmptyCollection(cat, _find_interesting_things_in_js(file.js).things[cat])
                   => Holds(results, cat, file.path,
                            _find_interesting_things_in_js(file.js).things[cat])

\* The paths of the files of a set with findings in a category
PathsWith(files, cat) ==
    {file.path : file \in
        {f \in files : ~IsEmptyCollection(cat, _find_interesting_things_in_js(f.js).things[cat])}}

\* The file of a set of distinct files that has the path
FileAt(files, path) == CHOOSE file \in files : file.path = path

\* What the aggregate of a set of files is, whatever the order of completion
AggregateOf(files) ==
    [cat \in DOMAIN NoResults |->
        [path \in PathsWith(files, cat) |->
            _find_interesting_things_in_js(FileAt(files, path).js).things[cat]]]

\* C19: for any set of distinct source files the aggregate is the same for
\* every order in which the per-file tasks complete: each combine writes only
\* the entries keyed by its own file path and leaves every other file's
\* entries unchanged, and a file with no findings in a category adds no key to
\* that category.
C19_AggregateIndependentOfOrder ==
    (pc \in {"gather", "gather_returned"}) => results = AggregateOf(Awaitedfiles)

\* C19's case: three files, two of them with findings in the same category,
\* have been awaited in some order and the aggregate returned
C19_Witness ==
    /\ pc = "gather_returned"
    /\ Cardinality(Awaitedfiles) = 3
    /\ Cardinality(DOMAIN results.other_urls) = 2
    /\ Cardinality(DOMAIN results.jsons) = 0

\* A closing token with no opener, or an opening token never closed
IsUnbalanced(toks) ==
    \E i \in FirstToken..Len(toks) :
        \/ toks[i].type \in {"TK_END_EXPR", "TK_END_BLOCK"} /\ toks[i].opened = None
        \/ toks[i].type \in {"TK_START_EXPR", "TK_START_BLOCK"} /\ toks[i].closed = None

\* No recognizer has produced anything
NoFindings(th) == \A cat \in Categories : IsEmptyCollection(cat, th[cat])

\* C20: when a file's delimiter nesting is unbalanced (a closer with no
\* matching opener, an opener never closed) extraction of that file is
\* rejected as a whole: no recognizer findings are produced from it.
C20_UnbalancedFileRejected ==
    (pc \in {"scan", "returned", "raised"} /\ IsUnbalanced(tokens)) => NoFindings(things)


\* The tokens between the opener `body` and its closer (the end of the file
\* when it is never closed)
Within(toks, body) ==
    {i \in (body + 1)..Len(toks) : toks[body].closed = None \/ i < toks[body].closed}

\* The key tokens of the clauses `<key> === e ?` of the function body
ClausesOf(toks, body) ==
    {i \in Within(toks, body) :
        /\ toks[i].type = "TK_WORD"
        /\ i + 3 <= Len(toks)
        /\ toks[i + 1].text = <<"=", "=", "=">>
        /\ toks[i + 2].text = <<"e">>
        /\ toks[i + 3].text = <<"?">>}

\* The key tokens of the entries of the parenthesised dictionary of the body
DictionaryKeysOf(toks, body) ==
    {i \in Within(toks, body) :
        /\ toks[i].parent \in Within(toks, body)
        /\ toks[toks[i].parent].text = <<"{">>
        /\ toks[toks[i].parent - 1].text = <<"(">>
        /\ toks[i + 1].text = <<":">>}

\* The `:` tokens that stand directly in the function body
ColonsOf(toks, body) ==
    {i \in Within(toks, body) : toks[i].parent = body /\ toks[i].text = <<":">>}

\* The body has a parenthesised dictionary
HasDictionary(toks, body) ==
    \E i \in Within(toks, body) : toks[i].text = <<"(">> /\ toks[i + 1].text = <<"{">>

\* The body of the dispatch function is not of the expected shape
Deviates(toks, body) ==
    \/ ClausesOf(toks, body) = {}
    \/ \E c \in ClausesOf(toks, body) : toks[c + 4].type # "TK_STRING"
    \/ Cardinality(ColonsOf(toks, body)) < Cardinality(ClausesOf(toks, body))
    \/ ~HasDictionary(toks, body)
    \/ \E k \in ClausesOf(toks, body) \cup DictionaryKeysOf(toks, body) :
           ~AllDigits(toks[k].text)

\* C11: when the dispatch function is found but its body deviates from the
\* expected shape (no ternary clause, a branch value that does not start with
\* a string literal, a missing `:` after a branch value, no parenthesised
\* dictionary in the trailing expression, a key that is not an integer)
\* parse_webpack fails for the whole file: it never returns a chunk list.
C11_DeviationIsReported ==
    (pc = "webpack_returned") => ~Deviates(tokens, locals.func_body_start)

\* The module IDs that are keys of the chain or of the dictionary
ModuleIds(toks, body) ==
    {NumVal(toks[k].text, 10) :
        k \in {i \in ClausesOf(toks, body) \cup DictionaryKeysOf(toks, body) :
                  AllDigits(toks[i].text)}}

RECURSIVE IsJoinedValue(_, _)
IsJoinedValue(toks, v) ==
    /\ v + 1 <= Len(toks)
    /\ toks[v].type = "TK_STRING" \/ toks[v].text = <<"e">>
    /\ \/ toks[v + 1].text = <<":">>
       \/ toks[v + 1].text = <<"+">> /\ IsJoinedValue(toks, v + 2)

\* The concatenation of the parts of such a value, the parameter read as key
RECURSIVE JoinedText(_, _, _)
JoinedText(toks, v, key) ==
    (IF toks[v].type = "TK_STRING" THEN WithoutQuotes(toks[v].text) ELSE key)
    \o (IF toks[v + 1].text = <<"+">> THEN JoinedText(toks, v + 2, key) ELSE <<>>)

\* The dict d holds the value under the key
HasItem(dict, key, value) ==
    \E i \in 1..Len(dict) : dict[i].key = key /\ dict[i].value = value

\* C13: for every ternary clause `<key> === <param> ? <value> :` whose branch
\* value is a `+`-joined sequence of string literals and references to the
\* parameter, the entry recorded for <key> is _next/ followed by the
\* concatenation of the parts in source order, each reference to the
\* parameter replaced by the text of <key>; and the walk over the chain
\* reaches the end of the function body.
C13_ClauseValueConcatenated ==
    (pc = "webpack_trailing")
        => \A c \in ClausesOf(tokens, locals.func_body_start) :
               (AllDigits(tokens[c].text) /\ IsJoinedValue(tokens, c + 4))
                   => HasItem(locals.d, NumVal(tokens[c].text, 10),
                              <<"_", "n", "e", "x", "t", "/">>
                                  \o JoinedText(tokens, c + 4, tokens[c].text))


\* The keys of a dict
Keys(dict) == {dict[i].key : i \in 1..Len(dict)}

ParamsOpen(toks) ==
    (CHOOSE i \in FirstToken..Len(toks) : toks[i].text = T_BUILD_MANIFEST) + 3
BodyOpen(toks) == toks[ParamsOpen(toks)].closed + 1
ReturnedOpen(toks) ==
    (CHOOSE i \in Children(toks, BodyOpen(toks)) : toks[i].text = <<"r", "e", "t", "u", "r", "n">>) + 1
CallOpen(toks) == toks[BodyOpen(toks)].closed + 1

\* The elements of a list or of an argument list: what the commas separate
ElementsOf(toks, open) == InOrder({i \in Children(toks, open) : toks[i].type # "TK_COMMA"})

\* The manifest is `... __BUILD_MANIFEST = function(<names>){return {...}}(<arguments>)`
\* with as many arguments as parameters, each argument one token
IsManifestCall(toks) ==
    /\ \E i \in FirstToken..Len(toks) : toks[i].text = T_BUILD_MANIFEST
    /\ ParamsOpen(toks) <= Len(toks)
    /\ toks[ParamsOpen(toks)].text = <<"(">>
    /\ toks[ParamsOpen(toks) - 1].text = T_function
    /\ toks[ParamsOpen(toks)].closed # None
    /\ toks[BodyOpen(toks)].closed # None
    /\ \E i \in Children(toks, BodyOpen(toks)) : toks[i].text = <<"r", "e", "t", "u", "r", "n">>
    /\ toks[CallOpen(toks)].text = <<"(">>
    /\ Len(ElementsOf(toks, CallOpen(toks))) = Len(ElementsOf(toks, ParamsOpen(toks)))
    /\ Cardinality(Children(toks, CallOpen(toks)))
           = IF Len(ElementsOf(toks, CallOpen(toks))) = 0 THEN 0
             ELSE 2 * Len(ElementsOf(toks, CallOpen(toks))) - 1

\* The route keys of the returned object, in order
RoutesOf(toks) == ChildrenOfType(toks, ReturnedOpen(toks), "TK_STRING")

\* The argument bound to a parameter name: the one at the name's position
BoundArgument(toks, name) ==
    WithoutQuotes(toks[ElementsOf(toks, CallOpen(toks))[
        CHOOSE i \in 1..Len(ElementsOf(toks, ParamsOpen(toks))) :
            toks[ElementsOf(toks, ParamsOpen(toks))[i]].text = name]].text)

\* What the list of a route resolves to, positionally
ResolvedList(toks, route) ==
    [i \in 1..Len(ElementsOf(toks, route + 2)) |->
        <<"_", "n", "e", "x", "t", "/">> \o
        (IF toks[ElementsOf(toks, route + 2)[i]].type = "TK_STRING"
         THEN WithoutQuotes(toks[ElementsOf(toks, route + 2)[i]].text)
         ELSE BoundArgument(toks, toks[ElementsOf(toks, route + 2)[i]].text))]

\* Every element of every route's list is a literal or a parameter name
ElementsAreBound(toks) ==
    \A r \in 1..Len(RoutesOf(toks)) :
        \A i \in 1..Len(ElementsOf(toks, RoutesOf(toks)[r] + 2)) :
            \/ toks[ElementsOf(toks, RoutesOf(toks)[r] + 2)[i]].type = "TK_STRING"
            \/ \E p \in 1..Len(ElementsOf(toks, ParamsOpen(toks))) :
                   toks[ElementsOf(toks, ParamsOpen(toks))[p]].text
                       = toks[ElementsOf(toks, RoutesOf(toks)[r] + 2)[i]].text

\* parse_build_manifest is over, by a return or by an exception
ManifestOver == pc \in {"manifest_returned", "manifest_raised"}

\* C14: the i-th formal parameter of the manifest function is bound to the
\* i-th argument of its call site, for every call-site argument list; for
\* each route entry the output list has the length and order of the source
\* list, each bare-word element replaced by the argument bound to the
\* parameter of that name and each string element kept, and every resulting
\* path starts with the root _next/.
C14_PositionalBinding ==
    (ManifestOver /\ IsManifestCall(tokens) /\ ElementsAreBound(tokens))
        => /\ pc = "manifest_returned"
           /\ Len(returned) = Len(RoutesOf(tokens))
           /\ \A r \in 1..Len(RoutesOf(tokens)) :
                  returned[r].value = ResolvedList(tokens, RoutesOf(tokens)[r])

\* C15 as stated: the manifest function of parameters a, b that returns
\* {"/x": [a, b]}, called with "c1.js", "c2.js", yields exactly
\* {"_next//x": ["_next/c1.js", "_next/c2.js"]}, the root prefix applied to
\* the page-route key as well as to each asset path.
C15_RootOnKeyAndAssets ==
    (ManifestOver /\ js \in {AssignedManifest, BareManifest})
        => /\ pc = "manifest_returned"
           /\ returned = <<[key |-> <<"_", "n", "e", "x", "t", "/", "/", "x">>, value |-> <<<<"_", "n", "e", "x", "t", "/", "c", "1", ".", "j", "s">>, <<"_", "n", "e", "x", "t", "/", "c", "2", ".", "j", "s">>>>]>>

\* C15 as the code has it: for that function assigned to __BUILD_MANIFEST the
\* result is {"/x": ["_next/c1.js", "_next/c2.js"]}, the root prefix applied
\* to each asset path and not to the page-route key; the bare parenthesised
\* call, with no __BUILD_MANIFEST name, is not resolved at all.
C15_RootOnAssetsOnly ==
    /\ (ManifestOver /\ js = AssignedManifest)
           => /\ pc = "manifest_returned"
              /\ returned = <<[key |-> <<"/", "x">>, value |-> <<<<"_", "n", "e", "x", "t", "/", "c", "1", ".", "j", "s">>, <<"_", "n", "e", "x", "t", "/", "c", "2", ".", "j", "s">>>>]>>
    /\ (ManifestOver /\ js = BareManifest) => raised = "StopIteration"

\* C15's case: that manifest has been resolved
C15_Witness == js = AssignedManifest /\ pc = "manifest_returned" /\ Len(returned) = 1


\* Token k is the key of an entry `"<fragment>":[<a>,<b>]`, a and b integers
IsPairEntry(toks, k) ==
    /\ k + 6 <= Len(toks)
    /\ toks[k].type = "TK_STRING"
    /\ Head(toks[k].text) = Quote
    /\ toks[k + 1].text = <<":">>
    /\ toks[k + 2].text = <<"[">>
    /\ toks[k + 3].type = "TK_WORD" /\ AllDigits(toks[k + 3].text)
    /\ toks[k + 4].text = <<",">>
    /\ toks[k + 5].type = "TK_WORD" /\ AllDigits(toks[k + 5].text)
    /\ toks[k + 6].text = <<"]">>

\* The key tokens of the object literal that opens at token open, in order
EntryKeys(toks, open) == InOrder({k \in Children(toks, open) : toks[k].type = "TK_STRING"})

\* Token open opens an object literal `{"<fragment>":[<a>,<b>], ...}`
IsPairLiteral(toks, open) ==
    /\ toks[open].text = <<"{">>
    /\ toks[open].closed # None
    /\ \A k \in Children(toks, open) :
           \/ toks[k].type = "TK_STRING" /\ IsPairEntry(toks, k)
           \/ toks[k].type \in {"TK_COMMA", "TK_OPERATOR", "TK_START_EXPR", "TK_END_EXPR"}
    /\ Cardinality(Children(toks, open))
           = IF Len(EntryKeys(toks, open)) = 0 THEN 0 ELSE 5 * Len(EntryKeys(toks, open)) - 1

\* Token b opens the body of `15288: function(...) {`
IsBody15288(toks, b) ==
    /\ b > 5
    /\ toks[b].text = <<"{">>
    /\ toks[b - 1].text = <<")">>
    /\ toks[b - 1].opened > 3
    /\ toks[toks[b - 1].opened - 1].text = T_function
    /\ toks[toks[b - 1].opened - 2].text = <<":">>
    /\ toks[toks[b - 1].opened - 3].text = T_15288

\* Token t, directly in block b, is the value of `var r = `
IsVarR(toks, b, t) ==
    /\ toks[t].parent = b
    /\ toks[t - 1].text = <<"=">>
    /\ toks[t - 2].text = T_r
    /\ toks[t - 3].text = T_var

\* The app bundle has the expected structure: function 15288, `var r = {...}`
\* directly in its body, the literal a mapping from string to a list of two
\* integers
HasExpectedStructure(toks) ==
    \E b \in FirstToken..Len(toks) :
        /\ IsBody15288(toks, b)
        /\ \E t \in Children(toks, b) : IsVarR(toks, b, t) /\ IsPairLiteral(toks, t)

\* extract_source has run to the end of the dump of the JSON data, or has
\* been left by an exception
RunOver == pc \in {"dumped", "run_raised"}

\* The names by raw numeric identifiers of the JSON data of the run
RawNames(jsons) ==
    UNION {{RawName(ModuleName(path), jsons[path][i].id) : i \in 1..Len(jsons[path])} :
              path \in DOMAIN jsons}

\* C16: when the app bundle does not have the expected structure (no function
\* labelled 15288, no `var r = {...}` directly in its body, or a literal that
\* is not a mapping from string to a two-element integer list), _extract_app
\* yields no localization map, the run continues to the recognizer and
\* JSON-dump stages, and names the JSON files by raw numeric identifiers; no
\* exception leaves the run.
C16_MismatchIsNotFatal ==
    (RunOver /\ locals.app_url_path # <<>> /\ ~HasExpectedStructure(tokens))
        => /\ pc = "dumped"
           /\ raised = "none"
           /\ returned = <<>>
           /\ written = RawNames(results.jsons)

\* The entries of the object literal that opens at token open, in order
LiteralEntries(toks, open) ==
    [i \in 1..Len(EntryKeys(toks, open)) |->
        [fragment |-> Strip(toks[EntryKeys(toks, open)[i]].text, {Quote}),
         a |-> NumVal(toks[EntryKeys(toks, open)[i] + 3].text, 10),
         b |-> NumVal(toks[EntryKeys(toks, open)[i] + 5].text, 10)]]

\* parse_localizations_from_app has found an object literal
\* `{fragment: [a, b], ...}` and has returned
LiteralRekeyed ==
    /\ pc \in {"extracted", "gathered", "dumping", "dumped"}
    /\ locals.r_start # None
    /\ IsPairLiteral(tokens, locals.r_start)

\* C17 as stated: for every object literal `{fragment: [a, b], ...}` found by
\* parse_localizations_from_app the output maps the pair (b, a), second
\* element first, to the fragment, with one output entry per literal entry.
C17_OneOutputEntryPerLiteralEntry ==
    LiteralRekeyed
        => /\ \A i \in 1..Len(LiteralEntries(tokens, locals.r_start)) :
                  HasItem(returned,
                          <<LiteralEntries(tokens, locals.r_start)[i].b,
                            LiteralEntries(tokens, locals.r_start)[i].a>>,
                          PurePosixPath(LiteralEntries(tokens, locals.r_start)[i].fragment))
           /\ Len(returned) = Len(LiteralEntries(tokens, locals.r_start))

\* Entry i of the entries is the last one written with its fragment
IsLastOfFragment(entries, i) ==
    \A j \in (i + 1)..Len(entries) : entries[j].fragment # entries[i].fragment

\* Where the fragment of entry i is written first
FirstWritten(entries, i) ==
    CHOOSE j \in 1..i :
        /\ entries[j].fragment = entries[i].fragment
        /\ \A h \in 1..(j - 1) : entries[h].fragment # entries[i].fragment

\* Entry i is the one the output keeps for its pair: the last of its
\* fragment, and no other such entry with the same pair has its fragment
\* written first further on
IsKept(entries, i) ==
    /\ IsLastOfFragment(entries, i)
    /\ \A j \in 1..Len(entries) :
           (IsLastOfFragment(entries, j) /\ entries[j].a = entries[i].a
                /\ entries[j].b = entries[i].b)
               => FirstWritten(entries, j) <= FirstWritten(entries, i)

\* The output for the entries of a literal
IsRekeyOf(dict, entries) ==
    /\ \A i \in 1..Len(entries) :
           IsKept(entries, i)
               => HasItem(dict, <<entries[i].b, entries[i].a>>,
                          PurePosixPath(entries[i].fragment))
    /\ Keys(dict) = {<<entries[i].b, entries[i].a>> :
                         i \in {j \in 1..Len(entries) : IsLastOfFragment(entries, j)}}
    /\ Len(dict) = Cardinality(Keys(dict))

\* C17: for every object literal `{fragment: [a, b], ...}` found by
\* parse_localizations_from_app the output maps each pair (b, a), second
\* element first, to the fragment as a path, with one output entry per
\* distinct pair: of the entries that carry the same pair the one that comes
\* last in the parsed mapping gives the fragment, and a fragment written
\* twice counts once, with its last list.
C17_OneOutputEntryPerPair ==
    LiteralRekeyed => IsRekeyOf(returned, LiteralEntries(tokens, locals.r_start))

\* C17's case: a literal of two entries with different pairs, the first list
\* 7 then 42, has been re-keyed into two output entries
C17_Witness ==
    /\ LiteralRekeyed
    /\ Len(LiteralEntries(tokens, locals.r_start)) = 2
    /\ LiteralEntries(tokens, locals.r_start)[1].a = 7
    /\ LiteralEntries(tokens, locals.r_start)[1].b = 42
    /\ LiteralEntries(tokens, locals.r_start)[1].fragment = F_x
    /\ Len(returned) = 2
    /\ HasItem(returned, <<42, 7>>, <<"e", "n", "/", "x", ".", "j", "s", "o", "n">>)


\* Token i of an arena opens, closes a delimiter
IsOpener(toks, i) == toks[i].type \in {"TK_START_BLOCK", "TK_START_EXPR"}
IsCloser(toks, i) == toks[i].type \in {"TK_END_BLOCK", "TK_END_EXPR"}

\* The nesting depth before token i and after it, by counting delimiters
DepthBefore(toks, i) ==
    Cardinality({j \in FirstToken..(i - 1) : IsOpener(toks, j)})
        - Cardinality({j \in FirstToken..(i - 1) : IsCloser(toks, j)})
DepthAfter(toks, i) ==
    DepthBefore(toks, i)
        + (IF IsOpener(toks, i) THEN 1 ELSE IF IsCloser(toks, i) THEN -1 ELSE 0)

\* The last opener before token i that opens at depth depth, None at depth -1
LastOpenerAt(toks, i, depth) ==
    IF depth < 0 THEN None
    ELSE CHOOSE j \in FirstToken..(i - 1) :
             /\ IsOpener(toks, j) /\ DepthBefore(toks, j) = depth
             /\ \A h \in (j + 1)..(i - 1) :
                    ~(IsOpener(toks, h) /\ DepthBefore(toks, h) = depth)

\* The texts of an opener and of a closer are of one kind
SameKind(open, close) ==
    \/ open = <<"(">> /\ close = <<")">>
    \/ open = <<"[">> /\ close = <<"]">>
    \/ open = <<"{">> /\ close = <<"}">>

\* The stream is balanced: no closer without an opener, no opener left open,
\* every closer of the kind of the opener it meets
IsBalanced(toks) ==
    /\ \A i \in FirstToken..Len(toks) : DepthAfter(toks, i) >= 0
    /\ DepthAfter(toks, Len(toks)) = 0
    /\ \A i \in FirstToken..Len(toks) :
           IsCloser(toks, i)
               => SameKind(toks[LastOpenerAt(toks, i, DepthAfter(toks, i))].text, toks[i].text)

\* The innermost opener whose closer has not occurred at token i
InnermostOpen(toks, i) ==
    IF IsCloser(toks, i) THEN LastOpenerAt(toks, i, DepthAfter(toks, i) - 1)
    ELSE LastOpenerAt(toks, i, DepthBefore(toks, i) - 1)

\* C21: for every balanced token stream returned by tokenize_js, each closing
\* token's `opened` link points to exactly one earlier opening token at the
\* same nesting depth, that token's `closed` link points back to the closer,
\* and every token's `parent` is the innermost opener whose closer has not
\* yet occurred at the token's position.
C21_LinksFollowNesting ==
    (pc = "tokenized" /\ IsBalanced(tokens))
        => \A i \in FirstToken..Len(tokens) :
               /\ tokens[i].parent = InnermostOpen(tokens, i)
               /\ IsCloser(tokens, i)
                      => /\ tokens[i].opened = LastOpenerAt(tokens, i, DepthAfter(tokens, i))
                         /\ tokens[i].opened < i
                         /\ tokens[tokens[i].opened].closed = i
                         /\ Cardinality({j \in FirstToken..Len(tokens) :
                                            tokens[j].closed = i}) = 1
               /\ ~IsCloser(tokens, i) => tokens[i].opened = None

\* C21's case: the balanced stream `({})` has been tokenized, and the inner
\* closer has the outer opener as parent
C21_Witness ==
    /\ pc = "tokenized"
    /\ IsBalanced(tokens)
    /\ js = <<LParen, LBrace, RBrace, RParen>>
    /\ tokens[4].opened = 3
    /\ tokens[4].parent = 2
    /\ tokens[5].opened = 2
    /\ tokens[5].parent = None


\* The source text of tokens a..b: before each token its newlines and its
\* whitespace
RECURSIVE SourceText(_, _, _)
SourceText(toks, a, b) ==
    IF a > b THEN <<>>
    ELSE SourceText(toks, a, b - 1) \o Newlines(toks[b].newlines)
             \o toks[b].whitespace_before \o toks[b].text

\* The opening brace of the first block of a file
FirstBlock(toks) ==
    CHOOSE i \in FirstToken..Len(toks) :
        /\ toks[i].type = "TK_START_BLOCK"
        /\ \A j \in FirstToken..(i - 1) : toks[j].type # "TK_START_BLOCK"

\* C22: the body text captured for an APIFunction is the source text from the
\* function's opening brace up to and including its matching closing brace,
\* with the original newlines and whitespace before each token.
C22_BodyIncludesClosingBrace ==
    (pc = "returned" /\ js \in ApiFunctionSources)
        => /\ Len(things.api_functions) = 1
           /\ things.api_functions[1].body
                  = SourceText(tokens, FirstBlock(tokens), tokens[FirstBlock(tokens)].closed)


\* The JSON.parse call sites of a file that parse successfully: the
\* iteration on the JSON token records a value
SuccessfulSites(toks) ==
    {i \in FirstToken..Len(toks) :
        /\ IsJsonParseCall(toks, i)
        /\ ScanToken(toks, EmptyThings, i).exc = "none"
        /\ ScanToken(toks, EmptyThings, i).things.jsons # <<>>}

\* The value the site at token i parses to, and its owner
SiteValue(toks, i) == ScanToken(toks, EmptyThings, i).things.jsons[1]

\* C23: within one file every JSON.parse call site that parses successfully
\* is present in the result's jsons: when two successful sites resolve to the
\* same owner function ID neither value is lost, and the number of JSON
\* values in the result equals the number of successfully parsed sites.
C23_EverySuccessfulSiteKept ==
    (pc = "returned")
        => /\ Len(things.jsons) = Cardinality(SuccessfulSites(tokens))
           /\ \A i \in SuccessfulSites(tokens) :
                  \E k \in 1..Len(things.jsons) : things.jsons[k] = SiteValue(tokens, i)

\* What the scan keeps instead: the result's jsons holds one value for every
\* owner function ID of a successful site, the value of the last such site
\* of that owner in the file.
LastSitePerOwnerKept ==
    (pc = "returned")
        => /\ Len(things.jsons)
                  = Cardinality({SiteValue(tokens, i).id : i \in SuccessfulSites(tokens)})
           /\ \A i \in SuccessfulSites(tokens) :
                  (\A j \in SuccessfulSites(tokens) :
                       SiteValue(tokens, j).id = SiteValue(tokens, i).id => j <= i)
                      => \E k \in 1..Len(things.jsons) : things.jsons[k] = SiteValue(tokens, i)


\* C24: in _dump_json_data, whose write_json tasks run concurrently, no two
\* tasks ever write to the same output path: distinct (source file, function
\* ID) pairs always get distinct output names, with and without a
\* localization map.
C24_NoTwoTasksWriteOnePath ==
    (pc = "dumping")
        => \A task \in futures, other \in futures :
               (task.file # other.file \/ task.function_id # other.function_id)
                   => task.out_name # other.out_name


(* The download tasks and their semaphore.                                    *)

\* At most max_connections requests of download_source are in flight, at
\* most one of the static files of extract_source
InFlightWithinLimit ==
    /\ Cardinality(InFlight) <= locals.max_connections
    /\ (locals.caller = "extract_source") => Cardinality(InFlight) <= 1

\* The counter of the semaphore and the requests in flight add up to
\* max_connections: a task that is done, with a response or with an
\* exception, holds the semaphore no more
ReleasedWhenDone == locals.value + Cardinality(InFlight) = locals.max_connections

\* The task of url waits in Semaphore.acquire
IsWaiting(url) == url \in source_files /\ futures[url] = "waiting"

\* Every task that waits for the semaphore acquires it
EveryWaitingTaskAcquires ==
    \A url \in ChunkUrls : IsWaiting(url) ~> (url \in locals.acquired)

\* C25: at every moment at most max_connections requests of download_source
\* and at most one request of the static files of extract_source are in
\* flight, the semaphore is released when a request fails as well as when it
\* succeeds, and every started download task eventually acquires the
\* semaphore.
C25_BoundedAndEveryTaskAcquires ==
    /\ []InFlightWithinLimit
    /\ []ReleasedWhenDone
    /\ EveryWaitingTaskAcquires

\* What holds instead of the last part: a task that waits acquires the
\* semaphore unless an exception has left the caller, after which the tasks
\* that still wait are cancelled
AcquiresUnlessRaised ==
    \A url \in ChunkUrls : IsWaiting(url) ~> (url \in locals.acquired \/ pc = "cancelled")


(* The failed requests of download_source.                                    *)

\* The paths of the files whose request ended with a response
Downloaded == {OutPath(url) : url \in {u \in source_files : futures[u] = "ok"}}

\* download_source returns the paths of exactly the files that were
\* downloaded, and each was written
ReturnsTheDownloaded ==
    (locals.caller = "download_source" /\ pc = "downloaded")
        => returned = Downloaded /\ returned \subseteq written

\* No exception of a request has left download_source
NoRequestStopsTheLoop ==
    (locals.caller = "download_source") => pc \notin {"download_raised", "cancelled"}

\* C26: in download_source a failed request, with an HTTP error status or with
\* any other failure such as a connection error, is skipped without stopping
\* the remaining downloads, and the set of paths returned holds exactly the
\* files that were downloaded and written.
C26_FailedRequestIsSkipped == NoRequestStopsTheLoop /\ ReturnsTheDownloaded

\* What holds instead: a response with an HTTP error status is skipped, and
\* only another failure leaves download_source
OnlyHttpErrorIsSkipped ==
    (locals.caller = "download_source")
        => /\ raised # "ClientResponseError"
           /\ \A url \in source_files :
                  (futures[url] = "ClientResponseError") => OutPath(url) \notin written

====
